---------------------------- MODULE Spec2Model ----------------------------
(***************************************************************************)
(* Query construction, filter injection and resilient execution of the     *)
(* dashboard (frontend/src/components/dashboard/Dashboard.tsx).            *)
(*                                                                         *)
(* SQL texts, predicates and error messages are TLA+ strings and are       *)
(* handled character by character, as the JavaScript code handles them.    *)
(***************************************************************************)
EXTENDS Naturals, Integers, Sequences, FiniteSets, TLC

VARIABLES
    originalQuery,   \* rewriter: argument originalQuery
    whereClause,     \* rewriter: argument whereClause
    rewritten,       \* rewriter: returned string
    rwDone,          \* rewriter: TRUE once the function has returned
    activeFilters,   \* clause builder: argument activeFilters, the entries in key order
    predicate,       \* clause builder: returned string
    bwThrew,         \* clause builder: TRUE when the call ended in an exception
    bwDone,          \* clause builder: TRUE once the call has ended
    tkSpec,          \* task: the KPI or chart specification of config.kpis / config.charts
    tkFilters,       \* task: the Filter State `filters` that loadData closes over
    tkPc,            \* task: "start", "primary", "fallback" or "done"
    tkCalls,         \* task: the executeQuery calls issued so far, in order
    tkError,         \* task: error.message of the rejected primary query
    tkOutcome,       \* task: the value the task's promise settles with
    vcData,          \* normalizer: argument data, the raw response
    vcConfig,        \* normalizer: argument config (type, x_axis, y_axis)
    vcResult,        \* normalizer: the returned DataValidationResult
    vcDone,          \* normalizer: TRUE once validateChartData has returned
    ldConfig,        \* dashboard: ids of the KPI and chart specifications that carry sql_query
    ldFilters,       \* dashboard: generation of the Filter State object `filters`
    ldCalls,         \* dashboard: the loadData invocations so far, in starting order
    ldErrors,        \* dashboard: the onError calls so far, in order, as <<invocation, id>>
    kpiData,         \* dashboard: state kpiData, results by KPI id
    chartData,       \* dashboard: state chartData, results by chart id
    loading,         \* dashboard: state loading
    refreshing,      \* dashboard: state refreshing
    plPhase,         \* poller: "new", "mounted" (effect has run) or "unmounted" (cleanup has run)
    plTimer,         \* poller: TRUE while the interval of intervalId is set
    plServer,        \* poller: the processing status the backend would report
    plPending,       \* poller: getProcessingStatus calls awaiting their response
    plIssued,        \* poller: getProcessingStatus calls issued so far
    plStatus,        \* poller: state status (response.status of the last setStatus, "null")
    plLoading,       \* poller: state loading
    plError,         \* poller: state error ("null" or the message)
    plCallbacks      \* poller: the onComplete / onError calls so far, in order

rwVars == <<originalQuery, whereClause, rewritten, rwDone>>
bwVars == <<activeFilters, predicate, bwThrew, bwDone>>
tkVars == <<tkSpec, tkFilters, tkPc, tkCalls, tkError, tkOutcome>>
vcVars == <<vcData, vcConfig, vcResult, vcDone>>
ldVars == <<ldConfig, ldFilters, ldCalls, ldErrors, kpiData, chartData, loading, refreshing>>
plVars == <<plPhase, plTimer, plServer, plPending, plIssued, plStatus, plLoading, plError,
           plCallbacks>>
vars == <<rwVars, bwVars, tkVars, vcVars, ldVars, plVars>>

-----------------------------------------------------------------------------
(* Characters and the String.prototype methods the code uses               *)

LowerLetters == "abcdefghijklmnopqrstuvwxyz"
UpperLetters == "ABCDEFGHIJKLMNOPQRSTUVWXYZ"
Digits == "0123456789"

CharsOf(s) == {SubSeq(s, i, i) : i \in 1..Len(s)}

\* \w of a JavaScript regular expression
WordChars == CharsOf(LowerLetters) \cup CharsOf(UpperLetters) \cup CharsOf(Digits) \cup {"_"}

\* \s of a JavaScript regular expression (the members that occur in SQL text)
SpaceChars == {" ", "\n", "\t", "\r"}

UpperMap ==
    [c \in CharsOf(LowerLetters) |->
        LET i == CHOOSE k \in 1..Len(LowerLetters) : SubSeq(LowerLetters, k, k) = c
        IN  SubSeq(UpperLetters, i, i)]

LowerMap ==
    [c \in CharsOf(UpperLetters) |->
        LET i == CHOOSE k \in 1..Len(UpperLetters) : SubSeq(UpperLetters, k, k) = c
        IN  SubSeq(LowerLetters, i, i)]

\* s.charAt(i - 1): the empty string outside the string
Ch(s, i) == IF i >= 1 /\ i <= Len(s) THEN SubSeq(s, i, i) ELSE ""

UpChar(c) == IF c \in DOMAIN UpperMap THEN UpperMap[c] ELSE c
LowChar(c) == IF c \in DOMAIN LowerMap THEN LowerMap[c] ELSE c

\* String.prototype.toUpperCase (the string is halved so that the evaluation stays shallow)
RECURSIVE toUpperCase(_)
toUpperCase(s) ==
    IF Len(s) = 0 THEN ""
    ELSE IF Len(s) = 1 THEN UpChar(s)
    ELSE LET h == Len(s) \div 2
         IN  toUpperCase(SubSeq(s, 1, h)) \o toUpperCase(SubSeq(s, h + 1, Len(s)))

\* String.prototype.toLowerCase
RECURSIVE toLowerCase(_)
toLowerCase(s) ==
    IF Len(s) = 0 THEN ""
    ELSE IF Len(s) = 1 THEN LowChar(s)
    ELSE LET h == Len(s) \div 2
         IN  toLowerCase(SubSeq(s, 1, h)) \o toLowerCase(SubSeq(s, h + 1, Len(s)))

\* first index >= i whose character is not white space (\s* consumed from i)
RECURSIVE SkipSpaces(_, _)
SkipSpaces(s, i) == IF Ch(s, i) \in SpaceChars THEN SkipSpaces(s, i + 1) ELSE i

\* first index >= i whose character is not a word character (\w* consumed from i)
RECURSIVE WordEnd(_, _)
WordEnd(s, i) == IF Ch(s, i) \in WordChars THEN WordEnd(s, i + 1) ELSE i

\* String.prototype.trim
RECURSIVE TrimEnd(_)
TrimEnd(s) ==
    IF s # "" /\ Ch(s, Len(s)) \in SpaceChars THEN TrimEnd(SubSeq(s, 1, Len(s) - 1)) ELSE s

trim(s) == LET i == SkipSpaces(s, 1) IN TrimEnd(SubSeq(s, i, Len(s)))

Min(S) == CHOOSE k \in S : \A j \in S : k <= j

\* the least member of a set of indices, 0 for the empty set
FirstOf(S) == IF S = {} THEN 0 ELSE Min(S)

\* String.prototype.indexOf, counted from 1: first index of pat at or after i, 0 if none
IndexOfFrom(s, pat, i) ==
    FirstOf({k \in i..(Len(s) - Len(pat) + 1) : SubSeq(s, k, k + Len(pat) - 1) = pat})

includes(s, pat) == IndexOfFrom(s, pat, 1) # 0

-----------------------------------------------------------------------------
(* Reference Rewriter: applyFiltersToDatasetReferences                     *)

\* the alternatives of reservedRegex
reservedRegex ==
    {"WHERE", "GROUP", "ORDER", "LIMIT", "HAVING", "WINDOW", "UNION", "INTERSECT",
     "EXCEPT", "OFFSET", "FETCH", "JOIN", "LEFT", "RIGHT", "FULL", "INNER", "OUTER",
     "ON", "USING", "AND", "OR"}

\* `(SELECT * FROM dataset WHERE ${whereClause}) AS ${alias}`
filteredDerived(wc, alias) == "(SELECT * FROM dataset WHERE " \o wc \o ") AS " \o alias

\* /\bdataset\b/i.test(query); U is the upper-cased query, k the index of the
\* next occurrence of the name
RECURSIVE HasDatasetFrom(_, _)
HasDatasetAt(U, k) ==
    IF k = 0 THEN FALSE
    ELSE IF Ch(U, k - 1) \notin WordChars /\ Ch(U, k + 7) \notin WordChars THEN TRUE
    ELSE HasDatasetFrom(U, k + 1)

HasDatasetFrom(U, i) == HasDatasetAt(U, IndexOfFrom(U, "DATASET", i))

HasDataset(q) == HasDatasetFrom(toUpperCase(q), 1)

\* `dataset` at index j of the upper-cased text: the index after it, 0 if absent
DatasetAt(U, j) == IF j + 6 <= Len(U) /\ SubSeq(U, j, j + 6) = "DATASET" THEN j + 7 ELSE 0

\* The part of the nine patterns up to and including `dataset`:
\*   kind "FROM": \bFROM\s+dataset     kind "JOIN": \bJOIN\s+dataset
\*   kind ",":    ,\s*dataset
\* matched at index i of s (U is s upper-cased, the patterns carry the i flag).
\* The result is the index after `dataset`, or 0 when there is no match at i.
LeadEnd(s, U, i, kind) ==
    IF kind = ","
    THEN IF Ch(s, i) # "," THEN 0 ELSE DatasetAt(U, SkipSpaces(s, i + 1))
    ELSE IF i + 3 > Len(U) \/ SubSeq(U, i, i + 3) # kind THEN 0
         ELSE IF Ch(s, i - 1) \in WordChars THEN 0
         ELSE IF SkipSpaces(s, i + 4) = i + 4 THEN 0
         ELSE DatasetAt(U, SkipSpaces(s, i + 4))

\* One match of a pattern at index i: [end |-> index after the match, 0 if none,
\*                                      alias |-> the captured group]
\*   form "AS":    <lead>\s+AS\s+(\w+)\b
\*   form "ALIAS": <lead>\s+(?!reservedRegex\b)(\w+)\b
\*   form "BARE":  <lead>\b
NoMatch == [end |-> 0, alias |-> ""]

\* the group (\w+)\b from index w to index e (exclusive)
Captured(s, w, e) == IF e > w THEN [end |-> e, alias |-> SubSeq(s, w, e - 1)] ELSE NoMatch

\* AS\s+(\w+)\b at index sp
MatchAs(s, U, sp) ==
    IF sp + 1 <= Len(U) /\ SubSeq(U, sp, sp + 1) = "AS" /\ SkipSpaces(s, sp + 2) > sp + 2
    THEN Captured(s, SkipSpaces(s, sp + 2), WordEnd(s, SkipSpaces(s, sp + 2)))
    ELSE NoMatch

\* (?!reservedRegex\b)(\w+)\b for the word from index sp to index e (exclusive)
MatchAlias(s, U, sp, e) ==
    IF e > sp /\ SubSeq(U, sp, e - 1) \notin reservedRegex THEN Captured(s, sp, e) ELSE NoMatch

\* the rest of a pattern after its lead, which ended at index d
MatchAfterLead(s, U, d, form) ==
    IF d = 0 THEN NoMatch
    ELSE IF form = "BARE"
    THEN IF Ch(s, d) \in WordChars THEN NoMatch ELSE [end |-> d, alias |-> "dataset"]
    ELSE IF SkipSpaces(s, d) = d THEN NoMatch
    ELSE IF form = "AS" THEN MatchAs(s, U, SkipSpaces(s, d))
    ELSE MatchAlias(s, U, SkipSpaces(s, d), WordEnd(s, SkipSpaces(s, d)))

MatchAt(s, U, i, kind, form) == MatchAfterLead(s, U, LeadEnd(s, U, i, kind), form)

\* String.prototype.replace with a global pattern: the matches are found left to
\* right, do not overlap, and the replacement text is not scanned again.
\* ReplaceFrom rewrites s from index i on; k is the index of the next match.
RECURSIVE ReplaceFrom(_, _, _, _, _, _)
ReplaceMatch(s, U, i, kind, form, wc, k) ==
    IF k = 0 THEN SubSeq(s, i, Len(s))
    ELSE SubSeq(s, i, k - 1)
           \o (IF kind = "," THEN ", " ELSE kind \o " ")
           \o filteredDerived(wc, MatchAt(s, U, k, kind, form).alias)
           \o ReplaceFrom(s, U, MatchAt(s, U, k, kind, form).end, kind, form, wc)

ReplaceFrom(s, U, i, kind, form, wc) ==
    ReplaceMatch(s, U, i, kind, form, wc,
                 FirstOf({k \in i..Len(s) : MatchAt(s, U, k, kind, form).end # 0}))

replace(s, kind, form, wc) == ReplaceFrom(s, toUpperCase(s), 1, kind, form, wc)

\* the nine replace calls, in the order of the code
Patterns ==
    << <<"FROM", "AS">>, <<"FROM", "ALIAS">>, <<"FROM", "BARE">>,
       <<"JOIN", "AS">>, <<"JOIN", "ALIAS">>, <<"JOIN", "BARE">>,
       <<",", "AS">>,    <<",", "ALIAS">>,    <<",", "BARE">> >>

\* query after the first n replace calls
RECURSIVE Replaced(_, _, _)
Replaced(query, wc, n) ==
    IF n = 0 THEN query
    ELSE replace(Replaced(query, wc, n - 1), Patterns[n][1], Patterns[n][2], wc)

\* (mutant) the function without its `if (!whereClause) return query` guard
applyFilters_NoEmptyGuard(query, wc) ==
    IF ~HasDataset(query) THEN query
    ELSE Replaced(query, wc, Len(Patterns))

\* the function after `const query = originalQuery.trim()`
applyFiltersTrimmed(query, wc) ==
    IF wc = "" THEN query
    ELSE IF ~HasDataset(query) THEN query
    ELSE Replaced(query, wc, Len(Patterns))

applyFiltersToDatasetReferences(oq, wc) == applyFiltersTrimmed(trim(oq), wc)

-----------------------------------------------------------------------------
(* JavaScript values of a Filter State                                      *)

\* scalars: [t |-> typeof / null, s |-> the string, or String(number) of a number]
JsUndefined == [t |-> "undefined", s |-> ""]
JsNull      == [t |-> "null", s |-> ""]
JsStr(x)    == [t |-> "string", s |-> x]
JsNum(x)    == [t |-> "number", s |-> x]

\* the properties of an object value that the code reads; an absent one is undefined
NoFields == [min |-> JsUndefined, max |-> JsUndefined, start |-> JsUndefined, end |-> JsUndefined]

\* a value of the Filter State: a scalar, an array of scalars or an object
JsScalar(sc) == [t |-> sc.t, s |-> sc.s, a |-> <<>>, o |-> NoFields]
JsArr(a)     == [t |-> "array", s |-> "", a |-> a, o |-> NoFields]
JsObj(o)     == [t |-> "object", s |-> "", a |-> <<>>, o |-> o]

\* String(v) and the template literal `${v}` of a scalar
String(sc) ==
    CASE sc.t = "null" -> "null"
      [] sc.t = "undefined" -> "undefined"
      [] OTHER -> sc.s

\* the truthiness of a scalar
Truthy(sc) ==
    CASE sc.t = "string" -> sc.s # ""
      [] sc.t = "number" -> sc.s \notin {"0", "NaN"}
      [] OTHER -> FALSE

\* s.replace(/'/g, "''")
RECURSIVE escapeQuotes(_)
escapeQuotes(s) ==
    IF Len(s) = 0 THEN ""
    ELSE IF Len(s) = 1 THEN (IF s = "'" THEN "''" ELSE s)
    ELSE LET h == Len(s) \div 2
         IN  escapeQuotes(SubSeq(s, 1, h)) \o escapeQuotes(SubSeq(s, h + 1, Len(s)))

RECURSIVE DigitsEnd(_, _)
DigitsEnd(s, i) == IF Ch(s, i) \in CharsOf(Digits) THEN DigitsEnd(s, i + 1) ELSE i

RECURSIVE StripLeadingZeros(_)
StripLeadingZeros(d) == IF Len(d) > 1 /\ Head(d) = "0" THEN StripLeadingZeros(Tail(d)) ELSE d

RECURSIVE StripTrailingZeros(_)
StripTrailingZeros(d) ==
    IF d # "" /\ Ch(d, Len(d)) = "0" THEN StripTrailingZeros(SubSeq(d, 1, Len(d) - 1)) ELSE d

\* parseFloat(v) followed by `${number}`: the result as Number.prototype.toString
\* prints it ("NaN" when no number is parsed).  Leading white space is skipped, then
\* a sign, then Infinity or digits with an optional fraction; what follows is
\* ignored.  (Exponent parts and values beyond double precision are not modelled:
\* the Filter States below hold none.)

\* the digits of a number as they are printed: no leading zeros in the integer
\* part, no trailing zeros in the fraction, no sign on zero
PrintedNumber(neg, ip, fp) ==
    IF fp = "" THEN (IF neg /\ ip # "0" THEN "-" \o ip ELSE ip)
    ELSE (IF neg THEN "-" ELSE "") \o ip \o "." \o fp

\* int and frac are the digits read before and after the decimal point
ParsedNumber(neg, int, frac) ==
    IF int = "" /\ frac = "" THEN "NaN"
    ELSE PrintedNumber(neg, StripLeadingZeros(IF int = "" THEN "0" ELSE int),
                       StripTrailingZeros(frac))

\* the integer digits of s1 run from index k to index ie (exclusive)
ParseFraction(s1, neg, k, ie) ==
    ParsedNumber(neg, SubSeq(s1, k, ie - 1),
                 IF Ch(s1, ie) = "." THEN SubSeq(s1, ie + 1, DigitsEnd(s1, ie + 1) - 1) ELSE "")

\* s1 is the text without its leading white space
ParseSigned(s1, neg, k) ==
    IF k + 7 <= Len(s1) /\ SubSeq(s1, k, k + 7) = "Infinity"
    THEN (IF neg THEN "-Infinity" ELSE "Infinity")
    ELSE ParseFraction(s1, neg, k, DigitsEnd(s1, k))

ParseTrimmed(s1) == ParseSigned(s1, Ch(s1, 1) = "-", IF Ch(s1, 1) \in {"-", "+"} THEN 2 ELSE 1)

ParseString(str) == ParseTrimmed(SubSeq(str, SkipSpaces(str, 1), Len(str)))

parseFloat(sc) == ParseString(String(sc))

-----------------------------------------------------------------------------
(* Filter Clause Builder: buildWhereClause                                  *)

\* config.filters: the Filter Declarations (id, column, type)
FilterCatalog ==
    << [id |-> "region", column |-> "region",     type |-> "categorical"],
       [id |-> "tags",   column |-> "tag",        type |-> "multi_select"],
       [id |-> "price",  column |-> "price",      type |-> "numeric_range"],
       [id |-> "day",    column |-> "order_date", type |-> "date_range"],
       [id |-> "misc",   column |-> "misc",       type |-> "text"] >>

\* config.filters.find((f) => f.id === filterId): the index of the first
\* declaration with that id, 0 for undefined
FindFilter(filterId) ==
    FirstOf({i \in 1..Len(FilterCatalog) : FilterCatalog[i].id = filterId})

\* Array.prototype.join
RECURSIVE join(_, _)
join(xs, sep) ==
    IF xs = <<>> THEN ""
    ELSE IF Len(xs) = 1 THEN xs[1]
    ELSE xs[1] \o sep \o join(Tail(xs), sep)

\* value.map((v) => `'${String(v).replace(/'/g, "''")}'`)
QuotedList(a) == [i \in 1..Len(a) |-> "'" \o escapeQuotes(String(a[i])) \o "'"]

\* the switch on filter.type: the conditions pushed for one entry
SwitchConditions(filter, value) ==
    CASE filter.type \in {"categorical", "multi_select"} ->
            IF value.t = "array" /\ Len(value.a) > 0
            THEN << filter.column \o " IN (" \o join(QuotedList(value.a), ", ") \o ")" >>
            ELSE IF value.t = "string" /\ value.s # ""
            THEN << filter.column \o " = '" \o escapeQuotes(value.s) \o "'" >>
            ELSE <<>>
      [] filter.type = "numeric_range" ->
            IF value.t \in {"object", "array"}
            THEN LET lo == value.o.min
                     hi == value.o.max
                     useLo == /\ lo.t \notin {"undefined", "null"}
                              /\ ~(lo.t = "string" /\ lo.s = "")
                              /\ parseFloat(lo) # "NaN"
                     useHi == /\ hi.t \notin {"undefined", "null"}
                              /\ ~(hi.t = "string" /\ hi.s = "")
                              /\ parseFloat(hi) # "NaN"
                 IN  (IF useLo THEN << filter.column \o " >= " \o parseFloat(lo) >> ELSE <<>>)
                       \o (IF useHi THEN << filter.column \o " <= " \o parseFloat(hi) >> ELSE <<>>)
            ELSE <<>>
      [] filter.type = "date_range" ->
            IF value.t \in {"object", "array"}
                  /\ Truthy(value.o.start) /\ Truthy(value.o.end)
            THEN << filter.column \o " BETWEEN '" \o String(value.o.start)
                      \o "' AND '" \o String(value.o.end) \o "'" >>
            ELSE <<>>
      [] OTHER -> <<>>

\* reading a property of null or undefined throws a TypeError: the switch does so
\* for a numeric_range or date_range filter when it is handed null
SwitchThrows(filter, value) ==
    filter.type \in {"numeric_range", "date_range"} /\ value.t = "null"

\* (mutant) the forEach callback without `value === undefined || value === null`
EntryConditions_NoNullGuard(entry) ==
    LET f == FindFilter(entry.id)
    IN  IF f = 0 THEN [threw |-> FALSE, conds |-> <<>>]
        ELSE IF SwitchThrows(FilterCatalog[f], entry.value) THEN [threw |-> TRUE, conds |-> <<>>]
        ELSE [threw |-> FALSE, conds |-> SwitchConditions(FilterCatalog[f], entry.value)]

\* the forEach callback for one [filterId, value] entry
EntryConditions(entry) ==
    LET f == FindFilter(entry.id)
    IN  IF f = 0 \/ entry.value.t \in {"undefined", "null"} THEN [threw |-> FALSE, conds |-> <<>>]
        ELSE IF SwitchThrows(FilterCatalog[f], entry.value) THEN [threw |-> TRUE, conds |-> <<>>]
        ELSE [threw |-> FALSE, conds |-> SwitchConditions(FilterCatalog[f], entry.value)]

\* the conditions array after the forEach over Object.entries(activeFilters)
RECURSIVE Conditions(_)
Conditions(entries) ==
    IF entries = <<>> THEN <<>>
    ELSE EntryConditions(Head(entries)).conds \o Conditions(Tail(entries))

BuildThrows(entries) == \E i \in 1..Len(entries) : EntryConditions(entries[i]).threw

\* conditions.join(" AND ")
buildWhereClause(entries) == join(Conditions(entries), " AND ")

-----------------------------------------------------------------------------
(* loadData: query generation for one KPI or chart                          *)

\* A specification is a record with the fields of KPIConfig and ChartConfig and
\* the optional sql_query; an optional field that is absent holds "", which is
\* falsy like undefined.  limit holds String(chart.limit).

\* (mutant) the KPI query with SUM as the default of the calculation switch
kpiBaseQuery_DefaultSum(kpi) ==
    IF kpi.value_column = "*" \/ toLowerCase(kpi.calculation) = "count"
    THEN IF kpi.value_column = "*"
         THEN "SELECT COUNT(*) as value FROM dataset"
         ELSE "SELECT COUNT(" \o kpi.value_column \o ") as value FROM dataset"
    ELSE IF kpi.format_type = "percentage" /\ includes(toLowerCase(kpi.name), "rate")
    THEN IF includes(toLowerCase(kpi.name), "cancel")
         THEN "SELECT (COUNT(CASE WHEN " \o kpi.value_column
                \o " = 'Cancelled' THEN 1 END) * 100.0 / COUNT(*)) as value FROM dataset"
         ELSE IF includes(toLowerCase(kpi.name), "conversion")
         THEN "SELECT (COUNT(CASE WHEN " \o kpi.value_column
                \o " = 'Completed' THEN 1 END) * 100.0 / COUNT(*)) as value FROM dataset"
         ELSE "SELECT (COUNT(" \o kpi.value_column \o ") * 100.0 / COUNT(*)) as value FROM dataset"
    ELSE LET c == toLowerCase(kpi.calculation)
         IN  CASE c = "sum" -> "SELECT SUM(" \o kpi.value_column \o ") as value FROM dataset"
               [] c \in {"avg", "average", "mean"} ->
                     "SELECT AVG(" \o kpi.value_column \o ") as value FROM dataset"
               [] c = "max" -> "SELECT MAX(" \o kpi.value_column \o ") as value FROM dataset"
               [] c = "min" -> "SELECT MIN(" \o kpi.value_column \o ") as value FROM dataset"
               [] OTHER -> "SELECT SUM(" \o kpi.value_column \o ") as value FROM dataset"

\* (mutant) the KPI query with the percentage branch taken for every name
kpiBaseQuery_AnyName(kpi) ==
    IF kpi.value_column = "*" \/ toLowerCase(kpi.calculation) = "count"
    THEN IF kpi.value_column = "*"
         THEN "SELECT COUNT(*) as value FROM dataset"
         ELSE "SELECT COUNT(" \o kpi.value_column \o ") as value FROM dataset"
    ELSE IF kpi.format_type = "percentage"
    THEN IF includes(toLowerCase(kpi.name), "cancel")
         THEN "SELECT (COUNT(CASE WHEN " \o kpi.value_column
                \o " = 'Cancelled' THEN 1 END) * 100.0 / COUNT(*)) as value FROM dataset"
         ELSE IF includes(toLowerCase(kpi.name), "conversion")
         THEN "SELECT (COUNT(CASE WHEN " \o kpi.value_column
                \o " = 'Completed' THEN 1 END) * 100.0 / COUNT(*)) as value FROM dataset"
         ELSE "SELECT (COUNT(" \o kpi.value_column \o ") * 100.0 / COUNT(*)) as value FROM dataset"
    ELSE LET c == toLowerCase(kpi.calculation)
         IN  CASE c = "sum" -> "SELECT SUM(" \o kpi.value_column \o ") as value FROM dataset"
               [] c \in {"avg", "average", "mean"} ->
                     "SELECT AVG(" \o kpi.value_column \o ") as value FROM dataset"
               [] c = "max" -> "SELECT MAX(" \o kpi.value_column \o ") as value FROM dataset"
               [] c = "min" -> "SELECT MIN(" \o kpi.value_column \o ") as value FROM dataset"
               [] OTHER -> "SELECT COUNT(" \o kpi.value_column \o ") as value FROM dataset"

\* the declarative KPI query, before the filter is applied (lines 82-128)
kpiBaseQuery(kpi) ==
    IF kpi.value_column = "*" \/ toLowerCase(kpi.calculation) = "count"
    THEN IF kpi.value_column = "*"
         THEN "SELECT COUNT(*) as value FROM dataset"
         ELSE "SELECT COUNT(" \o kpi.value_column \o ") as value FROM dataset"
    ELSE IF kpi.format_type = "percentage" /\ includes(toLowerCase(kpi.name), "rate")
    THEN IF includes(toLowerCase(kpi.name), "cancel")
         THEN "SELECT (COUNT(CASE WHEN " \o kpi.value_column
                \o " = 'Cancelled' THEN 1 END) * 100.0 / COUNT(*)) as value FROM dataset"
         ELSE IF includes(toLowerCase(kpi.name), "conversion")
         THEN "SELECT (COUNT(CASE WHEN " \o kpi.value_column
                \o " = 'Completed' THEN 1 END) * 100.0 / COUNT(*)) as value FROM dataset"
         ELSE "SELECT (COUNT(" \o kpi.value_column \o ") * 100.0 / COUNT(*)) as value FROM dataset"
    ELSE LET c == toLowerCase(kpi.calculation)
         IN  CASE c = "sum" -> "SELECT SUM(" \o kpi.value_column \o ") as value FROM dataset"
               [] c \in {"avg", "average", "mean"} ->
                     "SELECT AVG(" \o kpi.value_column \o ") as value FROM dataset"
               [] c = "max" -> "SELECT MAX(" \o kpi.value_column \o ") as value FROM dataset"
               [] c = "min" -> "SELECT MIN(" \o kpi.value_column \o ") as value FROM dataset"
               [] OTHER -> "SELECT COUNT(" \o kpi.value_column \o ") as value FROM dataset"

\* `if (whereClause) { query = applyFiltersToDatasetReferences(query, whereClause) }`
filteredRaw(query, wc) ==
    IF wc # "" THEN applyFiltersToDatasetReferences(query, wc) ELSE query

\* the raw-SQL branch of both forEach bodies (lines 73-79, 201-207)
rawQuery(spec, filters) == filteredRaw(spec.sql_query, buildWhereClause(filters))

\* `if (whereClause) { query += ` WHERE ${whereClause}` }`
whereSuffix(wc) == IF wc # "" THEN " WHERE " \o wc ELSE ""

\* (mutant) the KPI query with the builder preferred for the calculations it knows
kpiQuery_BuilderFirst(kpi, filters) ==
    IF kpi.sql_query # "" /\ toLowerCase(kpi.calculation) \notin {"sum", "avg", "max", "min"}
    THEN rawQuery(kpi, filters)
    ELSE kpiBaseQuery(kpi) \o whereSuffix(buildWhereClause(filters))

\* kpiQueries[kpi.id] (lines 70-138)
kpiQuery(kpi, filters) ==
    IF kpi.sql_query # ""
    THEN rawQuery(kpi, filters)
    ELSE kpiBaseQuery(kpi) \o whereSuffix(buildWhereClause(filters))

\* chart.limit && chart.limit > 0
LimitPositive(l) == l \notin {"", "0", "NaN"} /\ Head(l) # "-"

validAggregations == {"sum", "avg", "count", "min", "max"}

\* (mutant) the aggregation function taken as it is written in the specification
chartAggregation_AsWritten(chart) ==
    IF toLowerCase(chart.aggregation) \in validAggregations
    THEN chart.aggregation ELSE "COUNT"

\* the aggregation function of a chart query
chartAggregation(chart) ==
    IF toLowerCase(chart.aggregation) \in validAggregations
    THEN toUpperCase(chart.aggregation) ELSE "COUNT"

\* ORDER BY and LIMIT of a chart query
chartOrderLimit(chart) ==
    (IF chart.sort_by # ""
     THEN " ORDER BY " \o chart.sort_by \o " " \o toUpperCase(chart.sort_order)
     ELSE "")
      \o (IF LimitPositive(chart.limit) THEN " LIMIT " \o chart.limit ELSE "")

\* the declarative chart query with both axes, w being the WHERE part
chartAxesQuery(chart, w) ==
    (IF chart.aggregation # "" /\ chart.aggregation # "none"
     THEN "SELECT " \o chart.x_axis \o ", " \o chartAggregation(chart) \o "("
            \o chart.y_axis \o ") as " \o (IF chart.type = "pie" THEN "count" ELSE "value")
            \o " FROM dataset" \o w \o " GROUP BY " \o chart.x_axis
     ELSE "SELECT " \o chart.x_axis \o ", " \o chart.y_axis \o " FROM dataset" \o w)
      \o chartOrderLimit(chart)

\* (mutant) the declarative chart query without its else branch
chartBuiltQuery_NoDefault(chart, filters) ==
    IF chart.x_axis # "" /\ chart.y_axis # ""
    THEN chartAxesQuery(chart, whereSuffix(buildWhereClause(filters)))
    ELSE ""

\* the declarative chart query (lines 210-258)
chartBuiltQuery(chart, filters) ==
    IF chart.x_axis # "" /\ chart.y_axis # ""
    THEN chartAxesQuery(chart, whereSuffix(buildWhereClause(filters)))
    ELSE "SELECT * FROM dataset LIMIT 100"

\* chartQueries[chart.id] (lines 197-261)
chartQuery(chart, filters) ==
    IF chart.sql_query # "" THEN rawQuery(chart, filters) ELSE chartBuiltQuery(chart, filters)

\* the query of the first executeQuery call of a task
primaryQuery(spec, filters) ==
    IF spec.kind = "kpi" THEN kpiQuery(spec, filters) ELSE chartQuery(spec, filters)

-----------------------------------------------------------------------------
(* loadData: the catch handlers and the fallback queries                    *)

\* (mutant) the test without its `sql_query &&`
shouldFallback_AnyQuery(spec, message) ==
    \/ includes(message, "syntax error")
    \/ includes(message, "Binder Error")
    \/ includes(message, "GROUP BY")
    \/ includes(message, "not found in FROM clause")

\* the test of lines 147 and 269
shouldFallback(spec, message) ==
    /\ spec.sql_query # ""
    /\ \/ includes(message, "syntax error")
       \/ includes(message, "Binder Error")
       \/ includes(message, "GROUP BY")
       \/ includes(message, "not found in FROM clause")

\* the KPI fallback query (lines 151-168)
kpiFallbackQuery(kpi, filters) ==
    (CASE toLowerCase(kpi.calculation) = "sum" ->
             "SELECT COALESCE(SUM(" \o kpi.value_column \o "), 0) as value FROM dataset"
       [] toLowerCase(kpi.calculation) = "avg" ->
             "SELECT COALESCE(AVG(" \o kpi.value_column \o "), 0) as value FROM dataset"
       [] OTHER -> "SELECT COUNT(*) as value FROM dataset")
      \o whereSuffix(buildWhereClause(filters))

\* the replacement text of String.prototype.replace: $$, $&, $` and $' are
\* patterns, every other character stands for itself
RECURSIVE ExpandReplacement(_, _, _, _)
ExpandReplacement(repl, matched, before, after) ==
    LET k == IndexOfFrom(repl, "$", 1)
    IN  IF k = 0 THEN repl
        ELSE LET c    == Ch(repl, k + 1)
                 rest == SubSeq(repl, k + 2, Len(repl))
             IN  SubSeq(repl, 1, k - 1)
                   \o (CASE c = "$" -> "$" \o ExpandReplacement(rest, matched, before, after)
                         [] c = "&" -> matched \o ExpandReplacement(rest, matched, before, after)
                         [] c = "`" -> before \o ExpandReplacement(rest, matched, before, after)
                         [] c = "'" -> after \o ExpandReplacement(rest, matched, before, after)
                         [] OTHER -> "$" \o ExpandReplacement(SubSeq(repl, k + 1, Len(repl)),
                                                             matched, before, after))

\* s.replace(pat, repl) with a string pattern: the first occurrence only
replaceFirst(s, pat, repl) ==
    LET k == IndexOfFrom(s, pat, 1)
    IN  IF k = 0 THEN s
        ELSE LET before == SubSeq(s, 1, k - 1)
                 after  == SubSeq(s, k + Len(pat), Len(s))
             IN  before \o ExpandReplacement(repl, pat, before, after) \o after

\* the chart fallback query (lines 273-284)
chartFallbackBase(chart) ==
    IF chart.x_axis # "" /\ chart.y_axis # ""
    THEN "SELECT " \o chart.x_axis \o ", COUNT(*) as count FROM dataset WHERE "
           \o chart.x_axis \o " IS NOT NULL GROUP BY " \o chart.x_axis
           \o " ORDER BY count DESC LIMIT 10"
    ELSE "SELECT 'No Data' as category, 0 as count FROM dataset LIMIT 1"

\* `if (whereClause && chart.x_axis) { fallbackQuery = fallbackQuery.replace(...) }`
chartFallbackFiltered(chart, fb, wc) ==
    IF wc # "" /\ chart.x_axis # ""
    THEN replaceFirst(fb, "WHERE ", "WHERE " \o wc \o " AND ")
    ELSE fb

chartFallbackQuery(chart, filters) ==
    chartFallbackFiltered(chart, chartFallbackBase(chart), buildWhereClause(filters))

fallbackQuery(spec, filters) ==
    IF spec.kind = "kpi" THEN kpiFallbackQuery(spec, filters) ELSE chartFallbackQuery(spec, filters)

\* what a task's promise settles with: { type, id, result } or { type, id, error };
\* the result of executeQuery is named by the query it answers
NoOutcome == [type |-> "", id |-> "", settled |-> "none", result |-> "", error |-> ""]
ResultOutcome(spec, query) ==
    [type |-> spec.kind, id |-> spec.id, settled |-> "result", result |-> query, error |-> ""]
ErrorOutcome(spec, msg) ==
    [type |-> spec.kind, id |-> spec.id, settled |-> "error", result |-> "", error |-> msg]

-----------------------------------------------------------------------------
(* Result Normalizer: validateChartData (components/charts/BaseChart.tsx)   *)

\* A raw response is a JSON value, so JSON.stringify (line 421) does not throw.
\* A value read from it:
\*   [t |-> "undefined" | "null" | "string" | "array" | "object",
\*    rows |-> the elements when t = "array",
\*    inner |-> the value of its property `data` (of an object; undefined otherwise)]
\* The response itself has the properties data, results and result instead of inner.
NoInner == [t |-> "undefined", rows |-> <<>>]
InnerArr(rows) == [t |-> "array", rows |-> rows]
Undef == [t |-> "undefined", rows |-> <<>>, inner |-> NoInner]
Null == [t |-> "null", rows |-> <<>>, inner |-> NoInner]
Text == [t |-> "string", rows |-> <<>>, inner |-> NoInner]
Arr(rows) == [t |-> "array", rows |-> rows, inner |-> NoInner]
Obj(inner) == [t |-> "object", rows |-> <<>>, inner |-> inner]

Response(t, rows, d, rs, r) == [t |-> t, rows |-> rows, data |-> d, results |-> rs, result |-> r]
ResponseArr(rows) == Response("array", rows, Undef, Undef, Undef)
ResponseObj(d, rs, r) == Response("object", <<>>, d, rs, r)
ResponsePrim(t) == Response(t, <<>>, Undef, Undef, Undef)

\* the truthiness of a value read from a response (the string is not empty)
TruthyValue(v) == v.t \in {"string", "array", "object"}

\* A row is null or an object: [t |-> "null" | "object", cols |-> column -> scalar]
RowColumns == {"month", "revenue", "note"}
NullRow == [t |-> "null", cols |-> [c \in RowColumns |-> JsUndefined]]
Row(m, r, n) == [t |-> "object", cols |-> [c \in RowColumns |->
                    IF c = "month" THEN m ELSE IF c = "revenue" THEN r ELSE n]]

\* row[column]
Cell(row, column) == IF column \in DOMAIN row.cols THEN row.cols[column] ELSE JsUndefined

\* the if / else-if chain of lines 428-460: the first path that yields an array
Located(rows, path) == [found |-> TRUE, rows |-> rows, path |-> path]
NotLocated == [found |-> FALSE, rows |-> <<>>, path |-> ""]

\* (mutant) the chain with `.results.data` tried before `.data`
extractRows_ResultsDataFirst(data) ==
    IF data.t = "array" THEN Located(data.rows, "")
    ELSE IF TruthyValue(data) /\ TruthyValue(data.results) /\ data.results.inner.t = "array"
    THEN Located(data.results.inner.rows, "results.data")
    ELSE IF TruthyValue(data) /\ data.data.t = "array" THEN Located(data.data.rows, "data")
    ELSE IF TruthyValue(data) /\ TruthyValue(data.result) /\ data.result.inner.t = "array"
    THEN Located(data.result.inner.rows, "result.data")
    ELSE IF TruthyValue(data) /\ data.results.t = "array" THEN Located(data.results.rows, "results")
    ELSE NotLocated

extractRows(data) ==
    IF data.t = "array" THEN Located(data.rows, "")
    ELSE IF TruthyValue(data) /\ data.data.t = "array" THEN Located(data.data.rows, "data")
    ELSE IF TruthyValue(data) /\ TruthyValue(data.results) /\ data.results.inner.t = "array"
    THEN Located(data.results.inner.rows, "results.data")
    ELSE IF TruthyValue(data) /\ TruthyValue(data.result) /\ data.result.inner.t = "array"
    THEN Located(data.result.inner.rows, "result.data")
    ELSE IF TruthyValue(data) /\ data.results.t = "array" THEN Located(data.results.rows, "results")
    ELSE NotLocated

\* String(v).trim() !== "" for a value that is neither null nor undefined
IsPresent(v) == v.t \notin {"null", "undefined"} /\ trim(String(v)) # ""

\* the filter callback of cleanChartData (lines 522-537)
RowKept(row, config) ==
    /\ IsPresent(Cell(row, config.x_axis))
    /\ (config.y_axis = "" \/ IsPresent(Cell(row, config.y_axis)))

\* data.filter(...)
RECURSIVE FilterRows(_, _)
FilterRows(rows, config) ==
    IF rows = <<>> THEN <<>>
    ELSE (IF RowKept(Head(rows), config) THEN <<Head(rows)>> ELSE <<>>)
           \o FilterRows(Tail(rows), config)

\* a string cell that parseFloat reads as a number becomes that number
CoerceCell(v) ==
    IF v.t = "string" /\ parseFloat(v) # "NaN" THEN JsNum(parseFloat(v)) ELSE v

\* the map callback of cleanChartData (lines 538-559)
CoerceRow(row, config) ==
    [t |-> "object",
     cols |-> [c \in RowColumns |->
                 IF c # "" /\ c \in {config.x_axis, config.y_axis}
                 THEN CoerceCell(row.cols[c]) ELSE row.cols[c]]]

\* reading a property of a null row throws a TypeError
CleanThrows(rows, config) ==
    config.x_axis # "" /\ \E i \in 1..Len(rows) : rows[i].t = "null"

cleanChartData(rows, config) ==
    IF config.x_axis = "" THEN rows
    ELSE [i \in 1..Len(FilterRows(rows, config)) |-> CoerceRow(FilterRows(rows, config)[i], config)]

\* the warning by the number of rows (lines 568-574)
CountWarning(n) ==
    IF n = 0 THEN "No data available to display"
    ELSE IF n = 1 THEN "Only one data point available - chart may be limited"
    ELSE ""

\* new Set(data.map((row) => row[config.x_axis!])).size
Categories(rows, config) == Cardinality({Cell(rows[i], config.x_axis) : i \in 1..Len(rows)})

\* validateChartSpecificLenient(...).warning ("" for undefined)
LenientWarning(rows, config) ==
    CASE config.type = "pie" ->
            IF config.x_axis = ""
            THEN "Pie chart may not display correctly without X-axis configuration"
            ELSE IF \E i \in 1..Len(rows) : rows[i].t = "null"
            THEN "Chart configuration may have issues but will attempt to render"
            ELSE IF Categories(rows, config) > 20
            THEN "Many categories detected - chart may be crowded"
            ELSE CountWarning(Len(rows))
      [] config.type = "scatter" ->
            IF config.x_axis = "" \/ config.y_axis = ""
            THEN "Scatter plot may not display correctly without both X and Y axes"
            ELSE CountWarning(Len(rows))
      [] config.type = "line" ->
            IF Len(rows) > 100 THEN "Large dataset detected - chart may be crowded"
            ELSE CountWarning(Len(rows))
      [] OTHER -> CountWarning(Len(rows))

\* a DataValidationResult; an absent error or warning is "", hasData tells whether
\* processedData is present
ValidResult(rows, warning) ==
    [isValid |-> TRUE, hasData |-> TRUE, processedData |-> rows, warning |-> warning, error |-> ""]
InvalidResult(error) ==
    [isValid |-> FALSE, hasData |-> FALSE, processedData |-> <<>>, warning |-> "", error |-> error]

\* (mutant) processedData without the return to the raw rows
ProcessedRows_NoFallback(rows, cleaned, config) ==
    IF config.x_axis # "" \/ config.y_axis # "" THEN cleaned ELSE rows

\* processedData of lines 482-490
ProcessedRows(rows, cleaned, config) ==
    IF config.x_axis # "" \/ config.y_axis # ""
    THEN (IF Len(cleaned) > 0 THEN cleaned ELSE rows)
    ELSE rows

\* lines 481-500, for a non-empty row array
validateRows(processed, config) == ValidResult(processed, LenientWarning(processed, config))

\* lines 462-509, for a located array
validateLocated(rows, config) ==
    IF Len(rows) = 0 THEN ValidResult(<<>>, "No data available to display")
    ELSE IF (config.x_axis # "" \/ config.y_axis # "") /\ CleanThrows(rows, config)
    THEN ValidResult(<<>>, "Error processing chart data - showing empty chart")
    ELSE validateRows(ProcessedRows(rows, cleanChartData(rows, config), config), config)

validateExtracted(ex, config) ==
    IF ~ex.found THEN InvalidResult("Could not find data array in response")
    ELSE validateLocated(ex.rows, config)

validateChartData(data, config) == validateExtracted(extractRows(data), config)

-----------------------------------------------------------------------------
(* loadData: the Promise.all barrier and the result maps                    *)

\* the ids of config.kpis and of config.charts, and the order of `promises`
KpiIds == {"kpi_1"}
ChartIds == {"chart_1"}
TaskIds == KpiIds \cup ChartIds
TaskOrder == <<"kpi_1", "chart_1">>

\* the object {}
EmptyMap == [id \in {} |-> 0]

\* The promise of one task is pending on its primary executeQuery call
\* ("primary"), pending on its fallback call ("fallback"), or settled: with
\* { type, id, result } of the primary or of the fallback call, or with
\* { type, id, error } of the last catch handler that ran.
Pending(st) == st \in {"primary", "fallback"}
Succeeded(st) == st \in {"primaryResult", "fallbackResult"}
Failed(st) == st \in {"primaryError", "fallbackError"}

\* result.result of a settled task: the response of the call that resolved
QueryResultOf(n, id, st) == [call |-> n, id |-> id, by |-> st]

\* Promise.all(promises) is fulfilled once no task is pending
AllSettled(tasks) == \A id \in TaskIds : ~Pending(tasks[id])

\* (mutant) a barrier that a single failure rejects: nothing is stored
newData_AllOrNothing(n, tasks, ids) ==
    IF \E id \in TaskIds : Failed(tasks[id])
    THEN EmptyMap
    ELSE [id \in ids |-> QueryResultOf(n, id, tasks[id])]

\* (mutant) results written into the previous maps instead of into new ones
newData_Merged(n, tasks, ids) ==
    [id \in {i \in ids : Succeeded(tasks[i]) \/ i \in DOMAIN kpiData \cup DOMAIN chartData} |->
        IF Succeeded(tasks[id]) THEN QueryResultOf(n, id, tasks[id])
        ELSE IF id \in DOMAIN kpiData THEN kpiData[id] ELSE chartData[id]]

\* newKpiData (ids = KpiIds) and newChartData (ids = ChartIds) after results.forEach
newData(n, tasks, ids) ==
    [id \in {i \in ids : Succeeded(tasks[i])} |-> QueryResultOf(n, id, tasks[id])]

\* the onError calls of results.forEach, in the order of `promises`
FailedIds(tasks) == SelectSeq(TaskOrder, LAMBDA id : Failed(tasks[id]))
\* (mutant) only the first failure of an invocation is reported
ErrorCalls_FirstOnly(n, tasks) ==
    IF FailedIds(tasks) = <<>> THEN <<>> ELSE << <<n, FailedIds(tasks)[1]>> >>

ErrorCalls(n, tasks) == [k \in 1..Len(FailedIds(tasks)) |-> <<n, FailedIds(tasks)[k]>>]

-----------------------------------------------------------------------------

(* The rewriter on its own: one call of applyFiltersToDatasetReferences     *)

\* Bound: the number of clause fragments that follow the head of a SQL text
MaxFrags == 2

\* How a SQL text may begin (the last one carries leading white space)
SqlHeads ==
    {"SELECT *",
     "SELECT a, dataset.b",
     "WITH c AS (SELECT 1) SELECT a, b",
     " \nSELECT *"}

\* Clause fragments: every reference shape of the base table, look-alikes,
\* other tables and the clauses that may follow a reference
SqlFrags ==
    {"FROM dataset",
     "FROM dataset AS a",
     "from\n  dataset d",
     "JOIN dataset AS b",
     "JOIN dataset e",
     ", dataset",
     ",dataset f",
     "FROM t",
     "FROM datasets x",
     "WHERE a > 5 LIMIT 10 ",
     "GROUP BY a",
     "CROSS JOIN t",
     "NATURAL JOIN t",
     "LEFT JOIN t ON 1 = 1"}

\* Predicates as buildWhereClause produces them, and the empty predicate
SqlPredicates == {"", "c = 'X'", "r IN ('EU', 'US')"}

RECURSIVE JoinFrags(_)
JoinFrags(fs) == IF fs = <<>> THEN "" ELSE " " \o Head(fs) \o JoinFrags(Tail(fs))

FragSeqs == UNION {[1..n -> SqlFrags] : n \in 1..MaxFrags}

SqlTexts == {h \o JoinFrags(fs) : h \in SqlHeads, fs \in FragSeqs}

\* the variables of the parts that take no step in a specification
RwIdle == originalQuery = "" /\ whereClause = "" /\ rewritten = "" /\ rwDone = FALSE
BwIdle == activeFilters = <<>> /\ predicate = "" /\ bwThrew = FALSE /\ bwDone = FALSE
TkIdle ==
    /\ tkSpec = [kind |-> ""]
    /\ tkFilters = <<>>
    /\ tkPc = "idle"
    /\ tkCalls = <<>>
    /\ tkError = ""
    /\ tkOutcome = NoOutcome
VcIdle ==
    /\ vcData = ResponsePrim("undefined")
    /\ vcConfig = [type |-> "", x_axis |-> "", y_axis |-> ""]
    /\ vcResult = InvalidResult("")
    /\ vcDone = FALSE
LdIdle ==
    /\ ldConfig = {}
    /\ ldFilters = 0
    /\ ldCalls = <<>>
    /\ ldErrors = <<>>
    /\ kpiData = EmptyMap
    /\ chartData = EmptyMap
    /\ loading = TRUE
    /\ refreshing = FALSE

\* the poller before its effect has run
PlIdle ==
    /\ plPhase = "new"
    /\ plTimer = FALSE
    /\ plServer = "pending"
    /\ plPending = 0
    /\ plIssued = 0
    /\ plStatus = "null"
    /\ plLoading = TRUE
    /\ plError = "null"
    /\ plCallbacks = <<>>

RwInit ==
    /\ originalQuery \in SqlTexts
    /\ whereClause \in SqlPredicates
    /\ rewritten = ""
    /\ rwDone = FALSE
    /\ BwIdle
    /\ TkIdle
    /\ VcIdle
    /\ LdIdle
    /\ PlIdle

Rewrite ==
    /\ ~rwDone
    /\ rewritten' = applyFiltersToDatasetReferences(originalQuery, whereClause)
    /\ rwDone' = TRUE
    /\ UNCHANGED <<originalQuery, whereClause, bwVars, tkVars, vcVars, ldVars, plVars>>

RwNext == Rewrite

SpecRewrite == RwInit /\ [][RwNext]_vars

-----------------------------------------------------------------------------
(* The clause builder on its own: one call of buildWhereClause              *)

\* Bound: the number of entries of a Filter State
MaxEntries == 2

Range(o) == [min |-> o[1], max |-> o[2], start |-> JsUndefined, end |-> JsUndefined]
Dates(o) == [min |-> JsUndefined, max |-> JsUndefined, start |-> o[1], end |-> o[2]]

\* the [filterId, value] entries a Filter State may hold: every filter kind with
\* values that yield a condition and values that do not, and an undeclared id
FilterEntries ==
    {[id |-> "region", value |-> v] :
        v \in {JsScalar(JsStr("EU")), JsScalar(JsStr("O'Brien")), JsScalar(JsStr("")),
               JsScalar(JsNull), JsScalar(JsNum("5")), JsArr(<<>>),
               JsArr(<<JsStr("EU"), JsStr("U'S")>>)}}
    \cup {[id |-> "tags", value |-> v] :
        v \in {JsArr(<<JsStr("new"), JsNum("7")>>), JsScalar(JsUndefined), JsObj(NoFields)}}
    \cup {[id |-> "price", value |-> v] :
        v \in {JsObj(Range(<<JsNum("10"), JsNull>>)),
               JsObj(Range(<<JsStr(" 007.50"), JsStr("abc")>>)),
               JsObj(Range(<<JsStr(""), JsStr("-20.0x")>>)),
               JsObj(Range(<<JsNum("0"), JsNum("99.5")>>)),
               JsObj(Range(<<JsStr("Infinity"), JsNum("5")>>)),
               JsScalar(JsNull), JsScalar(JsStr("5")), JsArr(<<JsNum("1")>>)}}
    \cup {[id |-> "day", value |-> v] :
        v \in {JsObj(Dates(<<JsStr("2024-01-01"), JsStr("2024-01-31")>>)),
               JsObj(Dates(<<JsStr("2024-01-01"), JsNull>>)),
               JsObj(Dates(<<JsStr("2024-01-01"), JsStr("2024' OR '1'='1")>>)),
               JsScalar(JsNull)}}
    \cup {[id |-> "misc", value |-> JsScalar(JsStr("x"))],
          [id |-> "ghost", value |-> JsScalar(JsStr("EU"))],
          [id |-> "ghost", value |-> JsObj(Range(<<JsNum("1"), JsNum("2")>>))]}

\* Filter States: the entries of an object in key order; the keys are distinct
FilterStates ==
    {fs \in UNION {[1..n -> FilterEntries] : n \in 0..MaxEntries} :
        \A i, j \in 1..Len(fs) : i # j => fs[i].id # fs[j].id}

BwInit ==
    /\ activeFilters \in FilterStates
    /\ predicate = ""
    /\ bwThrew = FALSE
    /\ bwDone = FALSE
    /\ RwIdle
    /\ TkIdle
    /\ VcIdle
    /\ LdIdle
    /\ PlIdle

BuildWhere ==
    /\ ~bwDone
    /\ bwThrew' = BuildThrows(activeFilters)
    /\ predicate' = IF BuildThrows(activeFilters) THEN "" ELSE buildWhereClause(activeFilters)
    /\ bwDone' = TRUE
    /\ UNCHANGED <<activeFilters, rwVars, tkVars, vcVars, ldVars, plVars>>

BwNext == BuildWhere

SpecWhere == BwInit /\ [][BwNext]_vars

-----------------------------------------------------------------------------
(* One task of a refresh: the promise loadData pushes for one KPI or chart  *)

\* raw SQL of the upstream generator ("" when the specification has none)
RawSqls == {"", " SELECT month, SUM(revenue) AS value FROM dataset d GROUP BY month\n"}

KpiSpecs ==
    {[kind |-> "kpi", id |-> "kpi_1", name |-> n, value_column |-> vc, calculation |-> c,
      format_type |-> ft, type |-> "", x_axis |-> "", y_axis |-> "", aggregation |-> "",
      sort_by |-> "", sort_order |-> "", limit |-> "", sql_query |-> q] :
        n \in {"Total Revenue", "Cancelled Orders", "Cancellation Rate", "Conversion Rate",
              "Churn Rate"},
        vc \in {"*", "revenue"},
        c \in {"sum", "Avg", "mean", "count", "max", "min", "bogus", "percentage"},
        ft \in {"number", "percentage"},
        q \in RawSqls}

ChartSorts == {<<"", "asc">>, <<"value", "desc">>}

ChartSpecs ==
    {[kind |-> "chart", id |-> "chart_1", name |-> "", value_column |-> "", calculation |-> "",
      format_type |-> "", type |-> ty, x_axis |-> x, y_axis |-> y, aggregation |-> ag,
      sort_by |-> so[1], sort_order |-> so[2], limit |-> l, sql_query |-> q] :
        ty \in {"bar", "pie"},
        x \in {"", "month"},
        y \in {"", "revenue"},
        ag \in {"", "none", "sum", "Avg", "drop"},
        so \in ChartSorts,
        l \in {"", "10", "0"},
        q \in RawSqls}

\* the Filter States of a refresh: none, one that yields a predicate, and one
\* whose entries yield a range condition and nothing (a null value)
TaskFilterStates ==
    { <<>>,
      << [id |-> "region", value |-> JsScalar(JsStr("EU"))] >>,
      << [id |-> "price", value |-> JsObj(Range(<<JsNum("10"), JsNull>>))],
         [id |-> "day", value |-> JsScalar(JsNull)] >>,
      << [id |-> "day", value |-> JsScalar(JsNull)] >> }

\* error.message of a rejected executeQuery call
ErrorMessages ==
    {"Parser Error: syntax error at end of input",
     "Binder Error: No function matches the given name",
     "column a must appear in the GROUP BY clause",
     "Referenced table t not found in FROM clause!",
     "Syntax Error: binder error in group by",
     "Request failed with status code 500",
     "timeout of 30000ms exceeded"}

TkInit ==
    /\ tkSpec \in KpiSpecs \cup ChartSpecs
    /\ tkFilters \in TaskFilterStates
    /\ tkPc = "start"
    /\ tkCalls = <<>>
    /\ tkError = ""
    /\ tkOutcome = NoOutcome
    /\ RwIdle
    /\ BwIdle
    /\ VcIdle
    /\ LdIdle
    /\ PlIdle

\* the forEach body: the query is generated and executeQuery is called
IssuePrimary ==
    /\ tkPc = "start"
    /\ tkCalls' = << [kind |-> "primary", query |-> primaryQuery(tkSpec, tkFilters)] >>
    /\ tkPc' = "primary"
    /\ UNCHANGED <<tkSpec, tkFilters, tkError, tkOutcome, rwVars, bwVars, vcVars, ldVars, plVars>>

\* .then((result) => ({ type, id, result }))
PrimaryResolves ==
    /\ tkPc = "primary"
    /\ tkOutcome' = ResultOutcome(tkSpec, tkCalls[1].query)
    /\ tkPc' = "done"
    /\ UNCHANGED <<tkSpec, tkFilters, tkCalls, tkError, rwVars, bwVars, vcVars, ldVars, plVars>>

\* .catch((error) => ...) when the test for a fallback holds: the fallback query
\* is generated and executeQuery is called again
PrimaryRejectsRetry ==
    /\ tkPc = "primary"
    /\ \E m \in ErrorMessages :
          /\ shouldFallback(tkSpec, m)
          /\ tkError' = m
          /\ tkCalls' = Append(tkCalls, [kind |-> "fallback",
                                          query |-> fallbackQuery(tkSpec, tkFilters)])
          /\ tkPc' = "fallback"
    /\ UNCHANGED <<tkSpec, tkFilters, tkOutcome, rwVars, bwVars, vcVars, ldVars, plVars>>

\* .catch((error) => ...) otherwise: { type, id, error: error.message }
PrimaryRejectsFinal ==
    /\ tkPc = "primary"
    /\ \E m \in ErrorMessages :
          /\ ~shouldFallback(tkSpec, m)
          /\ tkError' = m
          /\ tkOutcome' = ErrorOutcome(tkSpec, m)
          /\ tkPc' = "done"
    /\ UNCHANGED <<tkSpec, tkFilters, tkCalls, rwVars, bwVars, vcVars, ldVars, plVars>>

\* the fallback's .then
FallbackResolves ==
    /\ tkPc = "fallback"
    /\ tkOutcome' = ResultOutcome(tkSpec, tkCalls[2].query)
    /\ tkPc' = "done"
    /\ UNCHANGED <<tkSpec, tkFilters, tkCalls, tkError, rwVars, bwVars, vcVars, ldVars, plVars>>

\* (mutant) a fallback's .catch that reports the fallback's message alone
FallbackRejects_PlainError ==
    /\ tkPc = "fallback"
    /\ \E m \in ErrorMessages : tkOutcome' = ErrorOutcome(tkSpec, m)
    /\ tkPc' = "done"
    /\ UNCHANGED <<tkSpec, tkFilters, tkCalls, tkError, rwVars, bwVars, vcVars, ldVars, plVars>>

\* (mutant) a fallback's .catch that runs the fallback query again
FallbackRejects_Retries ==
    /\ tkPc = "fallback"
    /\ tkCalls' = Append(tkCalls, [kind |-> "fallback",
                                    query |-> fallbackQuery(tkSpec, tkFilters)])
    /\ UNCHANGED <<tkSpec, tkFilters, tkPc, tkError, tkOutcome, rwVars, bwVars, vcVars, ldVars, plVars>>

\* the fallback's .catch: the combined error
FallbackRejects ==
    /\ tkPc = "fallback"
    /\ \E m \in ErrorMessages :
          tkOutcome' = ErrorOutcome(tkSpec, "LLM query failed: " \o tkError
                                              \o ". Fallback failed: " \o m)
    /\ tkPc' = "done"
    /\ UNCHANGED <<tkSpec, tkFilters, tkCalls, tkError, rwVars, bwVars, vcVars, ldVars, plVars>>

TkNext ==
    \/ IssuePrimary
    \/ PrimaryResolves
    \/ PrimaryRejectsRetry
    \/ PrimaryRejectsFinal
    \/ FallbackResolves
    \/ FallbackRejects

SpecTask == TkInit /\ [][TkNext]_vars

-----------------------------------------------------------------------------
(* The normalizer on its own: one call of validateChartData                 *)

\* Bound: the number of rows of a row array
MaxRows == 2

\* rows over the columns month and revenue (text, numeric-looking text, text
\* that starts with digits, blank text, a number, null, an absent column), and
\* the null row
RowValues ==
    {Row(m, r, JsStr("n")) : m \in {JsStr("Jan"), JsStr("42.5"), JsStr("2024-01"), JsStr(" "), JsNull},
                              r \in {JsStr("42.5"), JsStr("abc"), JsNum("7"), JsUndefined}}
      \cup {NullRow}

RowArrays == UNION {[1..n -> RowValues] : n \in 0..MaxRows}

\* the one-row array found under a path of a response
RowsAt(path) == << Row(JsStr("Jan"), JsNum("1"), JsStr(path)) >>

\* responses of every shape: each property absent, null, text, an array or an
\* object with or without an array under `data`
ShapedResponses ==
    {ResponseObj(d, rs, r) :
        d  \in {Undef, Null, Text, Arr(RowsAt("data")), Arr(<<>>)},
        rs \in {Undef, Null, Text, Arr(RowsAt("results")), Obj(NoInner),
                Obj(InnerArr(RowsAt("results.data")))},
        r  \in {Undef, Null, Arr(RowsAt("result")), Obj(NoInner),
                Obj(InnerArr(RowsAt("result.data")))}}
      \cup {ResponsePrim("undefined"), ResponsePrim("null"), ResponsePrim("string")}

\* the responses that carry a row array of their own choice, directly or under `data`
RowResponses ==
    {ResponseArr(rows) : rows \in RowArrays}
      \cup {ResponseObj(Arr(rows), Undef, Undef) : rows \in RowArrays}

ChartConfigs ==
    {[type |-> ty, x_axis |-> x, y_axis |-> y] :
        ty \in {"bar", "pie", "scatter", "line"}, x \in {"", "month"}, y \in {"", "revenue"}}

VcInit ==
    /\ vcData \in ShapedResponses \cup RowResponses
    /\ vcConfig \in ChartConfigs
    /\ vcResult = InvalidResult("")
    /\ vcDone = FALSE
    /\ RwIdle
    /\ BwIdle
    /\ TkIdle
    /\ LdIdle
    /\ PlIdle

Validate ==
    /\ ~vcDone
    /\ vcResult' = validateChartData(vcData, vcConfig)
    /\ vcDone' = TRUE
    /\ UNCHANGED <<vcData, vcConfig, rwVars, bwVars, tkVars, ldVars, plVars>>

VcNext == Validate

SpecChart == VcInit /\ [][VcNext]_vars

-----------------------------------------------------------------------------
(* The dashboard: overlapping loadData invocations over one component state *)

MaxCalls == 2      \* loadData invocations in one behaviour

\* an invocation of loadData: the filters generation it closes over, its
\* argument, its tasks, whether it is still at `await Promise.all`, and its
\* rank among the invocations whose barrier has completed (0 while awaiting)
NewCall(gen, showLoader) ==
    [filters |-> gen, showLoader |-> showLoader,
     tasks |-> [id \in TaskIds |-> "primary"], awaiting |-> TRUE, rank |-> 0]

\* the invocations whose barrier has completed
SettledCalls == {m \in 1..Len(ldCalls) : ~ldCalls[m].awaiting}

LdInit ==
    /\ ldConfig \in SUBSET TaskIds
    /\ ldFilters = 0
    /\ ldCalls = <<>>
    /\ ldErrors = <<>>
    /\ kpiData = EmptyMap
    /\ chartData = EmptyMap
    /\ loading = TRUE
    /\ refreshing = FALSE
    /\ RwIdle
    /\ BwIdle
    /\ TkIdle
    /\ VcIdle
    /\ PlIdle

\* loadData(showLoader) up to `await Promise.all(promises)`: the flags are
\* set and every primary query is issued
LoadData(gen, showLoader) ==
    /\ Len(ldCalls) < MaxCalls
    /\ ldCalls' = Append(ldCalls, NewCall(gen, showLoader))
    /\ loading' = (showLoader \/ loading)
    /\ refreshing' = ~showLoader
    /\ UNCHANGED <<ldConfig, ldErrors, kpiData, chartData, rwVars, bwVars, tkVars, vcVars, plVars>>

\* the effect on [datasetId, config, filters] at mount
Mount ==
    /\ ldCalls = <<>>
    /\ LoadData(ldFilters, TRUE)
    /\ UNCHANGED ldFilters

\* setFilters (initial defaults or a filter change) and the effect it triggers
FiltersChange ==
    /\ ldCalls # <<>>
    /\ ldFilters' = ldFilters + 1
    /\ LoadData(ldFilters + 1, TRUE)

\* handleRefresh
ManualRefresh ==
    /\ ldCalls # <<>>
    /\ LoadData(ldFilters, FALSE)
    /\ UNCHANGED ldFilters

TaskStep(n, id, from, to) ==
    /\ ldCalls[n].awaiting
    /\ ldCalls[n].tasks[id] = from
    /\ ldCalls' = [ldCalls EXCEPT ![n].tasks[id] = to]
    /\ UNCHANGED <<ldConfig, ldFilters, ldErrors, kpiData, chartData, loading, refreshing,
                   rwVars, bwVars, tkVars, vcVars, plVars>>

\* the primary call of task id of invocation n resolves
LdPrimaryResolves(n, id) == TaskStep(n, id, "primary", "primaryResult")

\* it rejects with a structural message and the task carries sql_query: the
\* catch handler issues the fallback call
LdPrimaryRejectsRetry(n, id) ==
    /\ id \in ldConfig
    /\ TaskStep(n, id, "primary", "fallback")

\* it rejects and the catch handler returns { type, id, error }
LdPrimaryRejectsFinal(n, id) == TaskStep(n, id, "primary", "primaryError")

LdFallbackResolves(n, id) == TaskStep(n, id, "fallback", "fallbackResult")

LdFallbackRejects(n, id) == TaskStep(n, id, "fallback", "fallbackError")

\* (mutant) the continuation with a guard that discards the results of a
\* superseded invocation
Settle_LatestOnly(n) ==
    /\ ldCalls[n].awaiting
    /\ AllSettled(ldCalls[n].tasks)
    /\ ldCalls' = [ldCalls EXCEPT ![n].awaiting = FALSE,
                                  ![n].rank = Cardinality(SettledCalls) + 1]
    /\ ldErrors' = ldErrors \o ErrorCalls(n, ldCalls[n].tasks)
    /\ kpiData' = (IF n = Len(ldCalls) THEN newData(n, ldCalls[n].tasks, KpiIds) ELSE kpiData)
    /\ chartData' = (IF n = Len(ldCalls) THEN newData(n, ldCalls[n].tasks, ChartIds) ELSE chartData)
    /\ loading' = FALSE
    /\ refreshing' = FALSE
    /\ UNCHANGED <<ldConfig, ldFilters, rwVars, bwVars, tkVars, vcVars, plVars>>

\* the continuation of `await Promise.all(promises)` of invocation n: result
\* processing, the two setters and the finally block, in one render batch
Settle(n) ==
    /\ ldCalls[n].awaiting
    /\ AllSettled(ldCalls[n].tasks)
    /\ ldCalls' = [ldCalls EXCEPT ![n].awaiting = FALSE,
                                  ![n].rank = Cardinality(SettledCalls) + 1]
    /\ ldErrors' = ldErrors \o ErrorCalls(n, ldCalls[n].tasks)
    /\ kpiData' = newData(n, ldCalls[n].tasks, KpiIds)
    /\ chartData' = newData(n, ldCalls[n].tasks, ChartIds)
    /\ loading' = FALSE
    /\ refreshing' = FALSE
    /\ UNCHANGED <<ldConfig, ldFilters, rwVars, bwVars, tkVars, vcVars, plVars>>

LdNext ==
    \/ Mount
    \/ FiltersChange
    \/ ManualRefresh
    \/ \E n \in 1..Len(ldCalls), id \in TaskIds : LdPrimaryResolves(n, id)
    \/ \E n \in 1..Len(ldCalls), id \in TaskIds : LdPrimaryRejectsRetry(n, id)
    \/ \E n \in 1..Len(ldCalls), id \in TaskIds : LdPrimaryRejectsFinal(n, id)
    \/ \E n \in 1..Len(ldCalls), id \in TaskIds : LdFallbackResolves(n, id)
    \/ \E n \in 1..Len(ldCalls), id \in TaskIds : LdFallbackRejects(n, id)
    \/ \E n \in 1..Len(ldCalls) : Settle(n)

SpecDashboard == LdInit /\ [][LdNext]_vars

\* every executeQuery call is answered or fails, and the continuation of a
\* fulfilled Promise.all is run
LdProgress ==
    \/ \E n \in 1..Len(ldCalls), id \in TaskIds :
          \/ LdPrimaryResolves(n, id)
          \/ LdPrimaryRejectsRetry(n, id)
          \/ LdPrimaryRejectsFinal(n, id)
          \/ LdFallbackResolves(n, id)
          \/ LdFallbackRejects(n, id)
    \/ \E n \in 1..Len(ldCalls) : Settle(n)

SpecDashboardLive == SpecDashboard /\ WF_vars(LdProgress)

-----------------------------------------------------------------------------
(* Claims about the rewriter (checked under SpecRewrite)                    *)

\* number of occurrences of pat in s
CountOcc(s, pat) ==
    Cardinality({k \in 1..(Len(s) - Len(pat) + 1) : SubSeq(s, k, k + Len(pat) - 1) = pat})

RefKinds == {"FROM", "JOIN", ","}

\* the references to the base table in a text: the indices where FROM, JOIN or a
\* comma is followed by the word dataset
RefsOf(t) ==
    LET U == toUpperCase(t)
    IN  {i \in 1..Len(t) : \E kind \in RefKinds : MatchAt(t, U, i, kind, "BARE").end # 0}

\* a reference at index i of t is the inner reference of a derived table filtered by wc
InsideDerived(t, i, wc) ==
    /\ i > 10
    /\ SubSeq(t, i - 10, i + 11) = "(SELECT * FROM dataset"
    /\ LET tl == " WHERE " \o wc \o ") AS "
       IN  i + 11 + Len(tl) <= Len(t) /\ SubSeq(t, i + 12, i + 11 + Len(tl)) = tl

\* C1: with a non-empty predicate P every reference to the base table (FROM, JOIN
\* or comma-list, with or without alias) is replaced by exactly one derived table
\* `(SELECT * FROM dataset WHERE P) AS alias` (the output holds as many derived
\* tables filtered by P as the input holds references), and the only references to dataset
\* left in the output are the filtered ones inside those derived tables.
C1_EveryReferenceWrappedOnce ==
    (rwDone /\ whereClause # "") =>
        /\ CountOcc(rewritten, " WHERE " \o whereClause \o ") AS ")
             = Cardinality(RefsOf(trim(originalQuery)))
        /\ \A i \in RefsOf(rewritten) : InsideDerived(rewritten, i, whereClause)

\* the second half of C1 alone: no unfiltered reference remains
NoUnfilteredReference ==
    (rwDone /\ whereClause # "") =>
        \A i \in RefsOf(rewritten) : InsideDerived(rewritten, i, whereClause)

\* C3 as stated: with an empty predicate, or without the base table name in Q,
\* the returned string equals the input Q exactly.
C3_IdentityExact ==
    (rwDone /\ (whereClause = "" \/ ~HasDataset(originalQuery))) =>
        rewritten = originalQuery

\* C3 as amended: with an empty predicate, or without the base table name in Q,
\* the returned string is Q without its leading and trailing white space.
C3_IdentityUpToTrim ==
    (rwDone /\ (whereClause = "" \/ ~HasDataset(originalQuery))) =>
        /\ rewritten = trim(originalQuery)
        /\ (Ch(originalQuery, 1) \notin SpaceChars
              /\ Ch(originalQuery, Len(originalQuery)) \notin SpaceChars)
             => rewritten = originalQuery

\* a call with the empty predicate on a text that names dataset and carries
\* white space at an end has returned
C3_Witness ==
    /\ rwDone
    /\ whereClause = ""
    /\ HasDataset(originalQuery)
    /\ trim(originalQuery) # originalQuery

\* the index after the word dataset of the reference at index i of t
RefEnd(t, i) ==
    LET U == toUpperCase(t)
        k == CHOOSE kind \in RefKinds : MatchAt(t, U, i, kind, "BARE").end # 0
    IN  MatchAt(t, U, i, k, "BARE").end

\* the clause keywords the guard is to protect
ClauseKeywords ==
    {"WHERE", "GROUP", "ORDER", "LIMIT", "HAVING", "ON", "USING", "UNION", "LEFT",
     "RIGHT", "FULL", "INNER", "OUTER", "CROSS", "NATURAL", "JOIN"}

\* C4: a reference to the base table that is directly followed by a clause keyword
\* (WHERE, GROUP, ORDER, LIMIT, HAVING, ON, USING, UNION, LEFT, RIGHT, FULL, INNER,
\* OUTER, CROSS, NATURAL, JOIN) is replaced by `(SELECT * FROM dataset WHERE P) AS
\* dataset`, the keyword stays directly after the derived table and is never taken
\* as the alias.
C4_KeywordNeverAlias ==
    (rwDone /\ whereClause # "") =>
        LET q == trim(originalQuery)
        IN  \A i \in RefsOf(q) :
                LET d  == RefEnd(q, i)
                    sp == SkipSpaces(q, d)
                    e  == WordEnd(q, sp)
                IN  (sp > d /\ e > sp /\ toUpperCase(SubSeq(q, sp, e - 1)) \in ClauseKeywords)
                    => /\ includes(rewritten,
                                   filteredDerived(whereClause, "dataset") \o SubSeq(q, d, e - 1))
                       /\ ~includes(rewritten, ") AS " \o SubSeq(q, sp, e - 1))

\* the first word of a text
FirstWord(t) == SubSeq(t, 1, WordEnd(t, 1) - 1)

\* the text before the first FROM keyword: the select list (and what precedes it)
SelectList(t) ==
    LET U    == toUpperCase(t)
        hits == {i \in 1..(Len(t) - 3) :
                    /\ SubSeq(U, i, i + 3) = "FROM"
                    /\ Ch(U, i - 1) \notin WordChars
                    /\ Ch(U, i + 4) \notin WordChars}
    IN  IF hits = {} THEN t ELSE SubSeq(t, 1, Min(hits) - 1)

\* the text after the last word dataset: the clauses that follow the last reference
AfterLastDataset(t) ==
    LET U    == toUpperCase(t)
        hits == {i \in 1..(Len(t) - 6) :
                    /\ SubSeq(U, i, i + 6) = "DATASET"
                    /\ Ch(U, i - 1) \notin WordChars
                    /\ Ch(U, i + 7) \notin WordChars}
    IN  IF hits = {} THEN t
        ELSE LET m == CHOOSE k \in hits : \A j \in hits : j <= k
             IN  SubSeq(t, m + 7, Len(t))

EndsWith(s, suf) == Len(suf) <= Len(s) /\ SubSeq(s, Len(s) - Len(suf) + 1, Len(s)) = suf

\* C5: for Q beginning with SELECT or WITH and a non-empty predicate, the output
\* begins with the same keyword, its select list is the select list of Q, and the
\* clauses of Q after the last reference (WHERE, GROUP BY, ORDER BY, LIMIT) end the
\* output unchanged.
C5_FramePreserved ==
    (/\ rwDone
     /\ whereClause # ""
     /\ toUpperCase(FirstWord(originalQuery)) \in {"SELECT", "WITH"}) =>
        LET q == trim(originalQuery)
        IN  /\ FirstWord(rewritten) = FirstWord(q)
            /\ SelectList(rewritten) = SelectList(q)
            /\ EndsWith(rewritten, AfterLastDataset(q))

\* parts of C5 on their own
C5_SameKeyword ==
    (rwDone /\ whereClause # "" /\ toUpperCase(FirstWord(originalQuery)) \in {"SELECT", "WITH"})
        => FirstWord(rewritten) = FirstWord(trim(originalQuery))

C5_TailKept ==
    (rwDone /\ whereClause # "" /\ toUpperCase(FirstWord(originalQuery)) \in {"SELECT", "WITH"})
        => EndsWith(rewritten, AfterLastDataset(trim(originalQuery)))

-----------------------------------------------------------------------------
(* Claims about the clause builder (checked under SpecWhere)                *)

DeclaredIds == {FilterCatalog[k].id : k \in 1..Len(FilterCatalog)}

\* the non-empty members of a sequence of strings, in order
RECURSIVE NonEmpty(_)
NonEmpty(xs) ==
    IF xs = <<>> THEN <<>>
    ELSE (IF Head(xs) = "" THEN <<>> ELSE <<Head(xs)>>) \o NonEmpty(Tail(xs))

\* what each entry yields when it is the only entry of the Filter State
PerEntry(entries) == [i \in 1..Len(entries) |-> buildWhereClause(<<entries[i]>>)]

\* C8: buildWhereClause never raises; its result is the conditions of the entries
\* that yield one, joined with " AND " in Filter State order; an entry with an
\* undeclared id or a null/undefined value contributes nothing; the result is the
\* empty string exactly when no entry yields a condition.
C8_ConjunctionInOrder ==
    bwDone =>
        /\ ~bwThrew
        /\ predicate = join(NonEmpty(PerEntry(activeFilters)), " AND ")
        /\ \A i \in 1..Len(activeFilters) :
              (\/ activeFilters[i].id \notin DeclaredIds
               \/ activeFilters[i].value.t \in {"null", "undefined"})
                 => PerEntry(activeFilters)[i] = ""
        /\ (predicate = "" <=> \A i \in 1..Len(activeFilters) : PerEntry(activeFilters)[i] = "")
        /\ (activeFilters = <<>> => predicate = "")

\* a Filter State with a null value for a range filter and, after it, an entry
\* that yields a condition has been turned into a predicate
C8_Witness ==
    /\ bwDone
    /\ Len(activeFilters) = 2
    /\ activeFilters[1].id = "price"
    /\ activeFilters[1].value.t = "null"
    /\ predicate = "region IN ('EU', 'U''S')"

-----------------------------------------------------------------------------
(* Claims about one task of a refresh (checked under SpecTask)              *)

\* the predicate P of the refresh
TaskPredicate == buildWhereClause(tkFilters)

\* the primary query has been issued for a specification without raw SQL
EngineBuiltIssued == tkPc # "start" /\ tkSpec.sql_query = ""

StartsWith(s, pre) == Len(s) >= Len(pre) /\ SubSeq(s, 1, Len(pre)) = pre

\* q restricts dataset by p: `WHERE p` directly after `FROM dataset`, and no
\* GROUP BY, ORDER BY or LIMIT before the end of p
RestrictsBy(q, p) ==
    LET clause == " FROM dataset WHERE " \o p
        k      == IndexOfFrom(q, clause, 1)
    IN  /\ k # 0
        /\ \A kw \in {" GROUP BY ", " ORDER BY ", " LIMIT "} :
              \/ IndexOfFrom(q, kw, 1) = 0
              \/ IndexOfFrom(q, kw, 1) >= k + Len(clause)

\* C2: with a non-empty predicate P every engine-built query that is issued (KPI,
\* aggregated chart, non-aggregated chart and the axes-missing default) carries
\* `WHERE P` after `FROM dataset` and before any GROUP BY / ORDER BY / LIMIT.
C2_EngineBuiltFiltered ==
    (EngineBuiltIssued /\ TaskPredicate # "") => RestrictsBy(tkCalls[1].query, TaskPredicate)

\* the part of C2 that the code keeps: the KPI query and the chart queries built
\* from both axes
C2_AxesQueriesFiltered ==
    (/\ EngineBuiltIssued
     /\ TaskPredicate # ""
     /\ (tkSpec.kind = "kpi" \/ (tkSpec.x_axis # "" /\ tkSpec.y_axis # "")))
        => RestrictsBy(tkCalls[1].query, TaskPredicate)

\* C6: for every specification without raw SQL the builder yields a query that
\* starts with SELECT and reads FROM dataset, never the empty string; a chart
\* that lacks an axis yields exactly `SELECT * FROM dataset LIMIT 100`.
C6_BuilderAlwaysSelects ==
    EngineBuiltIssued =>
        /\ Len(tkCalls) >= 1
        /\ tkCalls[1].query # ""
        /\ StartsWith(tkCalls[1].query, "SELECT ")
        /\ includes(tkCalls[1].query, " FROM dataset")
        /\ (tkSpec.kind = "chart" /\ (tkSpec.x_axis = "" \/ tkSpec.y_axis = ""))
              => tkCalls[1].query = "SELECT * FROM dataset LIMIT 100"

\* a chart without x axis and with the aggregation "drop" has had its query issued
C6_Witness ==
    /\ EngineBuiltIssued
    /\ tkSpec.kind = "chart"
    /\ tkSpec.x_axis = ""
    /\ tkSpec.aggregation = "drop"
    /\ tkCalls[1].query = "SELECT * FROM dataset LIMIT 100"

\* a KPI with the calculation "bogus" has had its query issued
C6_WitnessBogus ==
    /\ EngineBuiltIssued
    /\ tkSpec.kind = "kpi"
    /\ tkSpec.calculation = "bogus"
    /\ tkSpec.format_type = "number"
    /\ tkCalls[1].query = "SELECT COUNT(revenue) as value FROM dataset"

\* C7: for a specification with raw SQL the primary query is the raw text itself
\* when the predicate is empty and the rewriter's output on it otherwise, whatever
\* the other fields hold; it is never the declarative builder's query.
C7_RawSqlBypassesBuilder ==
    (tkPc = "primary" /\ tkSpec.sql_query # "") =>
        /\ tkCalls[1].kind = "primary"
        /\ TaskPredicate = "" => tkCalls[1].query = tkSpec.sql_query
        /\ TaskPredicate # "" =>
              tkCalls[1].query = applyFiltersToDatasetReferences(tkSpec.sql_query, TaskPredicate)
        /\ tkCalls[1].query
              \notin {kpiBaseQuery(tkSpec) \o whereSuffix(TaskPredicate),
                      chartBuiltQuery(tkSpec, tkFilters)}

\* a KPI with raw SQL, the calculation "sum" and a non-empty predicate has had a
\* query issued that the rewriter derived from the raw SQL
C7_Witness ==
    /\ tkPc = "primary"
    /\ tkSpec.kind = "kpi"
    /\ tkSpec.sql_query # ""
    /\ tkSpec.calculation = "sum"
    /\ TaskPredicate = "region = 'EU'"
    /\ tkCalls[1].query # tkSpec.sql_query
    /\ StartsWith(tkCalls[1].query, "SELECT month, SUM(revenue) AS value FROM (SELECT * FROM ")

\* error.message holds one of the four match targets
StructuralError(message) ==
    \E target \in {"syntax error", "Binder Error", "GROUP BY", "not found in FROM clause"} :
        includes(message, target)

\* C9: a fallback query is executed if and only if the primary execution failed,
\* the specification carries raw SQL and the error message holds one of
\* "syntax error", "Binder Error", "GROUP BY", "not found in FROM clause".
C9_FallbackIffStructuralRawFailure ==
    /\ (\E i \in 1..Len(tkCalls) : tkCalls[i].kind = "fallback")
          <=> (tkError # "" /\ tkSpec.sql_query # "" /\ StructuralError(tkError))
    /\ (tkPc = "done" /\ tkError # "" /\ ~(tkSpec.sql_query # "" /\ StructuralError(tkError)))
          => (Len(tkCalls) = 1 /\ tkOutcome.settled = "error" /\ tkOutcome.error = tkError)

\* a fallback has been issued after a GROUP BY failure of raw SQL
C9_Witness ==
    /\ tkPc = "fallback"
    /\ tkSpec.sql_query # ""
    /\ tkError = "column a must appear in the GROUP BY clause"
    /\ Len(tkCalls) = 2
    /\ tkCalls[2].kind = "fallback"

\* a raw SQL failure whose message differs in case from the targets ended the task
C9_WitnessOtherMessage ==
    /\ tkPc = "done"
    /\ tkSpec.sql_query # ""
    /\ tkError = "Syntax Error: binder error in group by"
    /\ Len(tkCalls) = 1

\* C10: at most two execution calls are issued for a task, the primary query and
\* at most one fallback; a failed fallback ends the task without a further call.
C10_AtMostOneRetry ==
    /\ Len(tkCalls) <= 2
    /\ \A i \in 1..Len(tkCalls) : tkCalls[i].kind = (IF i = 1 THEN "primary" ELSE "fallback")
    /\ (tkPc = "done" /\ tkOutcome.settled = "error" /\ tkError # tkOutcome.error)
          => Len(tkCalls) = 2

\* a fallback failed with a message that holds a match target, and the task ended
C10_Witness ==
    /\ tkPc = "done"
    /\ Len(tkCalls) = 2
    /\ tkOutcome.settled = "error"
    /\ tkOutcome.error = "LLM query failed: Parser Error: syntax error at end of input"
                           \o ". Fallback failed: Binder Error: No function matches the given name"

\* `LLM query failed: ${error.message}. Fallback failed: ${fallbackError.message}`
IsCombinedError(text, first) ==
    \E m \in ErrorMessages : text = "LLM query failed: " \o first \o ". Fallback failed: " \o m

\* C11 as stated: the error outcome of a task is always the combined error of
\* both attempts, and an error is surfaced only when the primary query and the
\* fallback both failed.
C11_ErrorAlwaysCombined ==
    (tkPc = "done" /\ tkOutcome.settled = "error") =>
        /\ Len(tkCalls) = 2
        /\ IsCombinedError(tkOutcome.error, tkError)

\* C11 as amended: the error outcome of a task is the combined error of both
\* attempts when a fallback was executed and failed, and the message of the
\* primary failure alone when no fallback was executed (the failure was not
\* structural or the specification has no raw SQL); a task whose primary query or
\* fallback succeeded settles with that result and no error.
C11_ErrorOutcome ==
    tkPc = "done" =>
        /\ tkOutcome.type = tkSpec.kind /\ tkOutcome.id = tkSpec.id
        /\ tkOutcome.settled \in {"result", "error"}
        /\ tkOutcome.settled = "error" =>
              \/ /\ Len(tkCalls) = 2
                 /\ tkSpec.sql_query # "" /\ StructuralError(tkError)
                 /\ IsCombinedError(tkOutcome.error, tkError)
              \/ /\ Len(tkCalls) = 1
                 /\ tkError # ""
                 /\ ~(tkSpec.sql_query # "" /\ StructuralError(tkError))
                 /\ tkOutcome.error = tkError
        /\ tkOutcome.settled = "result" =>
              /\ tkOutcome.error = ""
              /\ tkOutcome.result = tkCalls[Len(tkCalls)].query

\* a fallback failed after a structural failure of raw SQL: the combined error
C11_Witness ==
    /\ tkPc = "done"
    /\ Len(tkCalls) = 2
    /\ tkOutcome.settled = "error"
    /\ tkOutcome.error = "LLM query failed: Referenced table t not found in FROM clause!"
                           \o ". Fallback failed: timeout of 30000ms exceeded"

\* a failure that is not structural ended the task with its message alone
C11_WitnessPlain ==
    /\ tkPc = "done"
    /\ Len(tkCalls) = 1
    /\ tkSpec.sql_query # ""
    /\ tkOutcome.settled = "error"
    /\ tkOutcome.error = "Request failed with status code 500"

-----------------------------------------------------------------------------
(* Claims about the normalizer (checked under SpecChart)                    *)

\* the five extraction paths of a response, in the order they are tried: the
\* value found at each (undefined when the path cannot be followed)
PathValues(data) ==
    << [t |-> data.t, rows |-> data.rows],
       [t |-> data.data.t, rows |-> data.data.rows],
       [t |-> data.results.inner.t, rows |-> data.results.inner.rows],
       [t |-> data.result.inner.t, rows |-> data.result.inner.rows],
       [t |-> data.results.t, rows |-> data.results.rows] >>

\* the paths that yield an array
ArrayPaths(data) == {k \in 1..5 : PathValues(data)[k].t = "array"}

\* C12: validateChartData ends with valid = true for every raw input; when no row
\* array can be located at any path (a null or undefined response, an object of
\* unrecognized shape) it returns valid = true with an empty processed row set and
\* a warning.
C12_AlwaysRenderable ==
    vcDone =>
        /\ vcResult.isValid
        /\ ArrayPaths(vcData) = {} =>
              (vcResult.hasData /\ vcResult.processedData = <<>> /\ vcResult.warning # "")

\* the rows of a result come from the given array: each processed row carries the
\* note of a row of the array, and no row is added
RowsFrom(processed, rows) ==
    /\ Len(processed) <= Len(rows)
    /\ \A i \in 1..Len(processed) :
          \E j \in 1..Len(rows) : processed[i].cols.note = rows[j].cols.note

\* C15: the result is valid = false if and only if none of the five paths (the
\* response itself, .data, .results.data, .result.data, .results, in this order)
\* yields an array; the rows are taken from the first path that yields one; a
\* located empty array gives processedData [] and the warning "No data available
\* to display"; an exception thrown while processing gives valid = true.
C15_InvalidIffNoArray ==
    vcDone =>
        /\ ~vcResult.isValid <=> ArrayPaths(vcData) = {}
        /\ ~vcResult.isValid =>
              (~vcResult.hasData /\ vcResult.error = "Could not find data array in response")
        /\ \A k \in ArrayPaths(vcData) :
              (\A j \in ArrayPaths(vcData) : k <= j) =>
                 /\ vcResult.hasData
                 /\ RowsFrom(vcResult.processedData, PathValues(vcData)[k].rows)
                 /\ PathValues(vcData)[k].rows = <<>> =>
                       /\ vcResult.processedData = <<>>
                       /\ vcResult.warning = "No data available to display"
                 /\ CleanThrows(PathValues(vcData)[k].rows, vcConfig) =>
                       /\ vcResult.isValid
                       /\ vcResult.processedData = <<>>
                       /\ vcResult.warning = "Error processing chart data - showing empty chart"

\* a response with arrays under .data, .results.data and .result.data has been
\* normalized to the rows of .data
C15_Witness ==
    /\ vcDone
    /\ vcData.t = "object"
    /\ ArrayPaths(vcData) = {2, 3, 4}
    /\ vcData.data.rows # <<>>
    /\ vcResult.isValid
    /\ vcResult.processedData # <<>>
    /\ vcResult.processedData[1].cols.note = JsStr("data")

\* an object without an array at any path has been rejected
C15_WitnessInvalid ==
    /\ vcDone
    /\ vcData.t = "object"
    /\ vcData.results.t = "object"
    /\ ArrayPaths(vcData) = {}
    /\ ~vcResult.isValid

\* a row array with a null row has been processed for a configured x axis
C15_WitnessException ==
    /\ vcDone
    /\ vcData.t = "array"
    /\ vcConfig.x_axis = "month"
    /\ \E i \in 1..Len(vcData.rows) : vcData.rows[i].t = "null"
    /\ vcResult.isValid
    /\ vcResult.warning = "Error processing chart data - showing empty chart"

\* the row array the normalizer works on: the array at the first path that yields one
InputRows ==
    PathValues(vcData)[CHOOSE k \in ArrayPaths(vcData) : \A j \in ArrayPaths(vcData) : k <= j].rows

\* a row array has been located and normalized
RowsNormalized == vcDone /\ ArrayPaths(vcData) # {}

\* a cell is null, undefined or blank after trimming
Blank(v) == v.t \in {"null", "undefined"} \/ trim(String(v)) = ""

\* the row has a blank cell in a configured axis column
BlankOnAxis(row, config) ==
    \/ config.x_axis # "" /\ Blank(Cell(row, config.x_axis))
    \/ config.y_axis # "" /\ Blank(Cell(row, config.y_axis))

\* the rows of an array without a blank cell in a configured axis column, in order
RECURSIVE RowsToKeep(_, _)
RowsToKeep(rows, config) ==
    IF rows = <<>> THEN <<>>
    ELSE (IF BlankOnAxis(Head(rows), config) THEN <<>> ELSE <<Head(rows)>>)
           \o RowsToKeep(Tail(rows), config)

\* processed holds the rows of kept, in order, each cell as it was or coerced
SameRows(processed, kept) ==
    /\ Len(processed) = Len(kept)
    /\ \A i \in 1..Len(kept) :
          /\ processed[i].t = kept[i].t
          /\ \A c \in RowColumns :
                processed[i].cols[c] \in {kept[i].cols[c], CoerceCell(kept[i].cols[c])}

\* C25: when an axis is configured the processed rows hold no row whose x value,
\* or (with a y axis) whose y value, is null, undefined or blank after trimming,
\* and every other row of the located array is kept, in the original order: no
\* other step drops a row.
C25_BlankRowsDropped ==
    (RowsNormalized /\ (vcConfig.x_axis # "" \/ vcConfig.y_axis # "")) =>
        /\ vcResult.hasData
        /\ \A i \in 1..Len(vcResult.processedData) :
              ~BlankOnAxis(vcResult.processedData[i], vcConfig)
        /\ SameRows(vcResult.processedData, RowsToKeep(InputRows, vcConfig))

\* the part of C25 that holds: with an x axis, no null row and at least one
\* row without a blank axis cell, exactly the rows with a blank axis cell are dropped
C25_BlankRowsDroppedWithX ==
    (/\ RowsNormalized
     /\ vcConfig.x_axis # ""
     /\ \A i \in 1..Len(InputRows) : InputRows[i].t # "null"
     /\ RowsToKeep(InputRows, vcConfig) # <<>>) =>
        /\ \A i \in 1..Len(vcResult.processedData) :
              ~BlankOnAxis(vcResult.processedData[i], vcConfig)
        /\ SameRows(vcResult.processedData, RowsToKeep(InputRows, vcConfig))

\* with a y axis alone a row without y value has been kept
C25_WitnessYOnly ==
    /\ RowsNormalized
    /\ vcConfig.x_axis = "" /\ vcConfig.y_axis = "revenue"
    /\ InputRows = << Row(JsStr("Jan"), JsUndefined, JsStr("n")), Row(JsStr("Jan"), JsNum("7"), JsStr("n")) >>
    /\ vcResult.processedData = InputRows

\* one of two rows has been dropped for its blank x value
C25_WitnessDropped ==
    /\ RowsNormalized
    /\ vcConfig.x_axis = "month" /\ vcConfig.y_axis = ""
    /\ InputRows = << Row(JsStr(" "), JsNum("7"), JsStr("n")), Row(JsStr("Jan"), JsNum("7"), JsStr("n")) >>
    /\ vcResult.processedData = << Row(JsStr("Jan"), JsNum("7"), JsStr("n")) >>

\* the text is a number: a sign, digits and a decimal point around which
\* parseFloat finds digits, and nothing else
NumericText(s) ==
    /\ \A i \in 1..Len(trim(s)) :
          SubSeq(trim(s), i, i) \in {"0", "1", "2", "3", "4", "5", "6", "7", "8", "9", ".", "-", "+"}
    /\ ParseString(s) # "NaN"

\* the cell the claim gives for a cell of a source row
NumberIfNumeric(v, configured) ==
    IF configured /\ v.t = "string" /\ NumericText(v.s) THEN JsNum(ParseString(v.s)) ELSE v

\* processed holds the rows of source, with the numeric texts of the configured
\* axis columns turned into numbers and every other cell unchanged
CoercedFrom(processed, source, config) ==
    /\ Len(processed) = Len(source)
    /\ \A i \in 1..Len(source) : \A c \in RowColumns :
          Cell(processed[i], c)
            = NumberIfNumeric(Cell(source[i], c), c \in {config.x_axis, config.y_axis})

\* C26: in every processed row a configured x or y column that held a numeric
\* text (such as "42.5") holds the number, a configured column that held any
\* other text holds it unchanged, and the other columns are unchanged.
C26_NumericTextCoerced ==
    (RowsNormalized /\ vcResult.processedData # <<>>) =>
        \/ CoercedFrom(vcResult.processedData, InputRows, vcConfig)
        \/ CoercedFrom(vcResult.processedData, RowsToKeep(InputRows, vcConfig), vcConfig)

\* what holds with an x axis, whenever the filter keeps a row: the configured
\* columns hold what parseFloat reads at the start of their text, when it
\* reads a number, and the other columns are unchanged
C26_PrefixCoerced ==
    (/\ RowsNormalized
     /\ vcConfig.x_axis # ""
     /\ \A i \in 1..Len(InputRows) : InputRows[i].t # "null"
     /\ RowsToKeep(InputRows, vcConfig) # <<>>) =>
        /\ Len(vcResult.processedData) = Len(RowsToKeep(InputRows, vcConfig))
        /\ \A i \in 1..Len(vcResult.processedData) : \A c \in RowColumns :
              Cell(vcResult.processedData[i], c)
                = IF c \in {vcConfig.x_axis, vcConfig.y_axis}
                  THEN CoerceCell(Cell(RowsToKeep(InputRows, vcConfig)[i], c))
                  ELSE Cell(RowsToKeep(InputRows, vcConfig)[i], c)

\* the x value "2024-01" of a row has become the number 2024, and its y value
\* "42.5" the number 42.5
C26_WitnessPrefix ==
    /\ RowsNormalized
    /\ vcConfig.x_axis = "month" /\ vcConfig.y_axis = "revenue"
    /\ InputRows = << Row(JsStr("2024-01"), JsStr("42.5"), JsStr("n")) >>
    /\ vcResult.processedData = << Row(JsNum("2024"), JsNum("42.5"), JsStr("n")) >>

\* with a y axis alone the y value "42.5" has stayed a text
C26_WitnessYOnly ==
    /\ RowsNormalized
    /\ vcConfig.x_axis = "" /\ vcConfig.y_axis = "revenue"
    /\ InputRows = << Row(JsStr("Jan"), JsStr("42.5"), JsStr("n")) >>
    /\ vcResult.processedData = InputRows

\* a non-numeric text in a configured column has been left as it was
C26_WitnessUntouched ==
    /\ RowsNormalized
    /\ vcConfig.x_axis = "month" /\ vcConfig.y_axis = "revenue"
    /\ InputRows = << Row(JsStr("Jan"), JsStr("abc"), JsStr("n")) >>
    /\ vcResult.processedData = InputRows

\* processing the located array ends in the catch block: the filter reads a
\* column of a null row
ExceptionCaught ==
    vcConfig.x_axis # "" /\ \E i \in 1..Len(InputRows) : InputRows[i] = NullRow

\* C27: processedData is empty only when the located array is empty or an
\* exception was caught; for every other array it is non-empty, and when
\* cleaning drops every row it is the raw rows, unfiltered and uncoerced.
C27_RawRowsWhenAllDropped ==
    RowsNormalized =>
        /\ vcResult.hasData
        /\ vcResult.processedData = <<>> <=> (InputRows = <<>> \/ ExceptionCaught)
        /\ (/\ InputRows # <<>>
            /\ ~ExceptionCaught
            /\ vcConfig.x_axis # ""
            /\ RowsToKeep(InputRows, vcConfig) = <<>>)
              => vcResult.processedData = InputRows

\* both rows have a blank x value: the raw rows are returned, "42.5" still a text
C27_Witness ==
    /\ RowsNormalized
    /\ vcConfig.x_axis = "month" /\ vcConfig.y_axis = "revenue"
    /\ InputRows = << Row(JsStr(" "), JsStr("42.5"), JsStr("n")), Row(JsNull, JsNum("7"), JsStr("n")) >>
    /\ vcResult.processedData = InputRows
    /\ vcResult.isValid

-----------------------------------------------------------------------------
(* Claims about the dashboard (checked under SpecDashboard)                 *)

\* invocation n leaves `await Promise.all` in this step
Settles(n) == ldCalls[n].awaiting /\ ~ldCalls'[n].awaiting

\* map holds, under id, the result task id of invocation n settled with
StoredIn(map, n, id) ==
    id \in DOMAIN map /\ map[id] = QueryResultOf(n, id, ldCalls[n].tasks[id])

\* C13: whatever subset of the tasks of an invocation failed and in whatever
\* order the tasks settled, the step that ends the barrier stores the result
\* of every KPI and chart whose primary or fallback call succeeded under its
\* own id in the new kpiData and chartData maps.
C13_SuccessesStored ==
    [][\A n \in 1..Len(ldCalls) :
         Settles(n) =>
           /\ \A id \in KpiIds :
                Succeeded(ldCalls[n].tasks[id]) => StoredIn(kpiData', n, id)
           /\ \A id \in ChartIds :
                Succeeded(ldCalls[n].tasks[id]) => StoredIn(chartData', n, id)]_vars

\* an invocation whose chart failed on primary and fallback has settled, and the
\* result of its KPI's fallback is visible
C13_Witness ==
    \E n \in 1..Len(ldCalls) :
        /\ ~ldCalls[n].awaiting
        /\ ldCalls[n].tasks["chart_1"] = "fallbackError"
        /\ ldCalls[n].tasks["kpi_1"] = "fallbackResult"
        /\ StoredIn(kpiData, n, "kpi_1")
        /\ chartData = EmptyMap
        /\ <<n, "chart_1">> \in {ldErrors[k] : k \in 1..Len(ldErrors)}


\* map is exactly what invocation n produced for ids: an entry for each id whose
\* task succeeded, holding that task's result, and no other entry
ResultSetOf(map, n, ids) ==
    /\ DOMAIN map = {id \in ids : Succeeded(ldCalls[n].tasks[id])}
    /\ \A id \in DOMAIN map : map[id] = QueryResultOf(n, id, ldCalls[n].tasks[id])

\* C14: in every reachable state the visible kpiData and chartData are the
\* initial empty maps, or together the complete result set of one invocation
\* of loadData whose tasks have all settled and whose barrier has completed;
\* they never hold results of two invocations or of a pending invocation.
C14_WholesaleReplacement ==
    \/ kpiData = EmptyMap /\ chartData = EmptyMap
    \/ \E n \in 1..Len(ldCalls) :
          /\ ~ldCalls[n].awaiting
          /\ AllSettled(ldCalls[n].tasks)
          /\ ResultSetOf(kpiData, n, KpiIds)
          /\ ResultSetOf(chartData, n, ChartIds)

\* two invocations overlapped and both have settled, the first one last: the
\* visible maps are the first one's alone (its KPI result, no chart entry),
\* although the second one obtained a chart result
C14_Witness ==
    /\ Len(ldCalls) = 2
    /\ ~ldCalls[1].awaiting /\ ~ldCalls[2].awaiting
    /\ ldCalls[1].tasks = [id \in TaskIds |-> IF id = "kpi_1" THEN "primaryResult" ELSE "primaryError"]
    /\ ldCalls[2].tasks = [id \in TaskIds |-> IF id = "kpi_1" THEN "primaryError" ELSE "primaryResult"]
    /\ ResultSetOf(kpiData, 1, KpiIds)
    /\ chartData = EmptyMap


-----------------------------------------------------------------------------
(* Claims about the fallback queries (checked under SpecTask)               *)

\* the fallback query of the task has been issued
FallbackIssued == Len(tkCalls) = 2 /\ tkCalls[2].kind = "fallback"

\* C16: whenever a fallback query is executed while the Filter State yields a
\* non-empty predicate P, the fallback query restricts dataset by P, for a KPI,
\* for a chart with both axes and for a chart that lacks an axis.
C16_FallbackFiltered ==
    (FallbackIssued /\ TaskPredicate # "")
        => RestrictsBy(tkCalls[2].query, TaskPredicate)

\* the part of C16 that holds: the fallback of a KPI restricts dataset by P
C16_KpiFallbackFiltered ==
    (FallbackIssued /\ TaskPredicate # "" /\ tkSpec.kind = "kpi")
        => RestrictsBy(tkCalls[2].query, TaskPredicate)

\* and so does the fallback of a chart that has both axes
C16_AxesFallbackFiltered ==
    (/\ FallbackIssued
     /\ TaskPredicate # ""
     /\ tkSpec.kind = "chart" /\ tkSpec.x_axis # "" /\ tkSpec.y_axis # "")
        => RestrictsBy(tkCalls[2].query, TaskPredicate)

\* the 'No Data' fallback of a chart without both axes was issued unfiltered
C16_WitnessNoData ==
    /\ FallbackIssued
    /\ TaskPredicate = "region = 'EU'"
    /\ tkSpec.kind = "chart"
    /\ tkCalls[2].query = "SELECT 'No Data' as category, 0 as count FROM dataset LIMIT 1"


-----------------------------------------------------------------------------
(* Claims about the pattern sequence of the rewriter (checked under SpecRewrite) *)

\* the derived tables opened in a text
DerivedTables(t) == CountOcc(t, "(SELECT * FROM ")

\* C17: text produced by an earlier pattern is not matched again by a later,
\* looser pattern: with a non-empty predicate P the output opens exactly one
\* derived table per base-table reference of the input, each of them
\* `(SELECT * FROM dataset WHERE P)`, and no derived table inside another.
C17_NoRematch ==
    (rwDone /\ whereClause # "") =>
        /\ DerivedTables(rewritten)
             = DerivedTables(trim(originalQuery)) + Cardinality(RefsOf(trim(originalQuery)))
        /\ CountOcc(rewritten, "(SELECT * FROM (SELECT * FROM dataset") = 0

\* the input holds a FROM reference with an alias (with or without AS)
HasAliasedFrom(t) ==
    \E i \in 1..Len(t), form \in {"AS", "ALIAS"} :
        MatchAt(t, toUpperCase(t), i, "FROM", form).end # 0

\* the part of C17 that holds: without an aliased FROM reference in the input
\* no produced text is matched again
C17_NoRematchWithoutAliasedFrom ==
    (rwDone /\ whereClause # "" /\ ~HasAliasedFrom(trim(originalQuery))) =>
        /\ DerivedTables(rewritten)
             = DerivedTables(trim(originalQuery)) + Cardinality(RefsOf(trim(originalQuery)))
        /\ CountOcc(rewritten, "(SELECT * FROM (SELECT * FROM dataset") = 0

\* the bare FROM pattern has matched the text the aliased FROM pattern produced
C17_WitnessRematched ==
    /\ rwDone
    /\ trim(originalQuery) = "SELECT * FROM dataset AS a"
    /\ whereClause = "c = 'X'"
    /\ rewritten = "SELECT * FROM (SELECT * FROM (SELECT * FROM dataset WHERE c = 'X') AS dataset WHERE c = 'X') AS a"


\* C18: rewriting an already rewritten query a second time with the same
\* non-empty predicate changes nothing: rewrite(rewrite(Q, P), P) = rewrite(Q, P).
C18_Idempotent ==
    (rwDone /\ whereClause # "") =>
        applyFiltersToDatasetReferences(rewritten, whereClause) = rewritten

\* what does hold: a second call with the empty predicate returns its input
C18_SecondCallEmptyPredicate ==
    rwDone => applyFiltersToDatasetReferences(rewritten, "") = rewritten

\* the second call has wrapped the inner reference of the derived table again
C18_WitnessDoubleWrap ==
    /\ rwDone
    /\ whereClause = "c = 'X'"
    /\ rewritten = "SELECT * FROM (SELECT * FROM dataset WHERE c = 'X') AS dataset"
    /\ applyFiltersToDatasetReferences(rewritten, whereClause)
         = "SELECT * FROM (SELECT * FROM (SELECT * FROM dataset WHERE c = 'X') AS dataset WHERE c = 'X') AS dataset"


-----------------------------------------------------------------------------
(* Claims about the declarative KPI query (checked under SpecTask)          *)

\* the primary query of a KPI without raw SQL has been issued
KpiBuiltIssued == EngineBuiltIssued /\ tkSpec.kind = "kpi"

\* the percentage branch of the code: format_type percentage and a name with "rate"
IsRateKpi(kpi) ==
    kpi.format_type = "percentage" /\ includes(toLowerCase(kpi.name), "rate")

\* the branch that precedes it: wildcard column or calculation count
IsCountKpi(kpi) == kpi.value_column = "*" \/ toLowerCase(kpi.calculation) = "count"

\* q computes agg over the value column of kpi (over * for a wildcard) under the alias value
Aggregates(q, agg, kpi) ==
    StartsWith(q, "SELECT " \o agg \o "(" \o kpi.value_column \o ") as value FROM dataset")

\* the aggregate the calculation names; average and mean are read as avg only
\* when withSynonyms holds
AggregateOf(kpi, withSynonyms) ==
    LET c == toLowerCase(kpi.calculation)
    IN  IF IsCountKpi(kpi) THEN "COUNT"
        ELSE IF c = "sum" THEN "SUM"
        ELSE IF c = "avg" \/ (withSynonyms /\ c \in {"average", "mean"}) THEN "AVG"
        ELSE IF c = "max" THEN "MAX"
        ELSE IF c = "min" THEN "MIN"
        ELSE "COUNT"

\* C19 as stated: for a KPI without raw SQL the calculation alone determines
\* the aggregate of the built query (COUNT for * or count, SUM, AVG, MAX, MIN
\* for sum, avg, max, min, COUNT(value_column) for anything else), selected
\* under the alias value from dataset.
C19_AggregateByCalculation ==
    KpiBuiltIssued => Aggregates(tkCalls[1].query, AggregateOf(tkSpec, FALSE), tkSpec)

\* C19 as amended: the calculation determines the aggregate, with average and
\* mean read as avg, unless the KPI takes the percentage branch (format_type
\* percentage, a name with "rate", no wildcard column and a calculation other
\* than count); in every case the value is selected under the alias value
\* from dataset, and an unrecognized calculation never gives SUM.
C19_AggregateUnlessRate ==
    KpiBuiltIssued =>
        /\ (IsCountKpi(tkSpec) \/ ~IsRateKpi(tkSpec))
              => Aggregates(tkCalls[1].query, AggregateOf(tkSpec, TRUE), tkSpec)
        /\ includes(tkCalls[1].query, ") as value FROM dataset")
        /\ toLowerCase(tkSpec.calculation) # "sum" => ~StartsWith(tkCalls[1].query, "SELECT SUM(")

\* an unrecognized calculation has been built as COUNT(value_column), with the filter
C19_Witness ==
    /\ KpiBuiltIssued
    /\ tkSpec.calculation = "bogus"
    /\ tkSpec.format_type = "number"
    /\ tkCalls[1].query = "SELECT COUNT(revenue) as value FROM dataset WHERE region = 'EU'"

\* a sum KPI that takes the percentage branch has been built as a ratio
C19_WitnessRate ==
    /\ KpiBuiltIssued
    /\ tkSpec.calculation = "sum"
    /\ tkSpec.name = "Churn Rate"
    /\ tkCalls[1].query = "SELECT (COUNT(revenue) * 100.0 / COUNT(*)) as value FROM dataset"

\* the calculation mean has been built as AVG
C19_WitnessMean ==
    /\ KpiBuiltIssued
    /\ tkSpec.calculation = "mean"
    /\ tkCalls[1].query = "SELECT AVG(revenue) as value FROM dataset"


\* the ratio of the rows whose value column holds the status literal
StatusRatio(kpi, literal) ==
    "SELECT (COUNT(CASE WHEN " \o kpi.value_column \o " = '" \o literal
      \o "' THEN 1 END) * 100.0 / COUNT(*)) as value FROM dataset"

\* the ratio of the rows whose value column is not null
NonNullRatio(kpi) ==
    "SELECT (COUNT(" \o kpi.value_column \o ") * 100.0 / COUNT(*)) as value FROM dataset"

\* the query the percentage rule names for a KPI
PercentageQuery(kpi) ==
    IF includes(toLowerCase(kpi.name), "cancel") THEN StatusRatio(kpi, "Cancelled")
    ELSE IF includes(toLowerCase(kpi.name), "conversion") THEN StatusRatio(kpi, "Completed")
    ELSE NonNullRatio(kpi)

\* C20 as stated: every KPI without raw SQL whose format_type is percentage is
\* built as the CASE WHEN ratio of 'Cancelled' or 'Completed' when its name
\* contains "cancel" or "conversion", and as the generic non-null ratio otherwise.
C20_PercentageRatio ==
    (KpiBuiltIssued /\ tkSpec.format_type = "percentage")
        => StartsWith(tkCalls[1].query, PercentageQuery(tkSpec))

\* C20 as amended: that holds for the percentage KPIs whose name contains
\* "rate", whose value column is not * and whose calculation is not count;
\* every other percentage KPI is built from its calculation alone, like a KPI
\* of any other format type.
C20_PercentageRatioOfRates ==
    (KpiBuiltIssued /\ tkSpec.format_type = "percentage") =>
        IF IsRateKpi(tkSpec) /\ ~IsCountKpi(tkSpec)
        THEN StartsWith(tkCalls[1].query, PercentageQuery(tkSpec))
        ELSE Aggregates(tkCalls[1].query, AggregateOf(tkSpec, TRUE), tkSpec)

\* a cancellation rate has been built as the ratio of 'Cancelled' rows, with the filter
C20_Witness ==
    /\ KpiBuiltIssued
    /\ tkSpec.name = "Cancellation Rate"
    /\ tkSpec.format_type = "percentage"
    /\ tkCalls[1].query =
         "SELECT (COUNT(CASE WHEN revenue = 'Cancelled' THEN 1 END) * 100.0 / COUNT(*)) as value FROM dataset WHERE region = 'EU'"

\* a percentage KPI whose name holds "cancel" but not "rate" has been built as a sum
C20_WitnessNoRate ==
    /\ KpiBuiltIssued
    /\ tkSpec.name = "Cancelled Orders"
    /\ tkSpec.format_type = "percentage"
    /\ tkCalls[1].query = "SELECT SUM(revenue) as value FROM dataset"


-----------------------------------------------------------------------------
(* Claims about the declarative chart query (checked under SpecTask)        *)

\* the primary query of a chart without raw SQL, with both axes and an
\* aggregation other than none, has been issued
AggregatedChartIssued ==
    /\ EngineBuiltIssued
    /\ tkSpec.kind = "chart"
    /\ tkSpec.x_axis # "" /\ tkSpec.y_axis # ""
    /\ tkSpec.aggregation \notin {"", "none"}

\* the text the claim gives for such a chart under predicate p
AggregatedChartText(chart, p) ==
    "SELECT " \o chart.x_axis \o ", "
      \o (IF toLowerCase(chart.aggregation) \in {"sum", "avg", "count", "min", "max"}
          THEN toUpperCase(chart.aggregation) ELSE "COUNT")
      \o "(" \o chart.y_axis \o ") as " \o (IF chart.type = "pie" THEN "count" ELSE "value")
      \o " FROM dataset"
      \o (IF p # "" THEN " WHERE " \o p ELSE "")
      \o " GROUP BY " \o chart.x_axis
      \o (IF chart.sort_by # ""
          THEN " ORDER BY " \o chart.sort_by \o " " \o toUpperCase(chart.sort_order) ELSE "")
      \o (IF chart.limit \notin {"", "0"} THEN " LIMIT " \o chart.limit ELSE "")

\* C21: a chart without raw SQL that has both axes and an aggregation other
\* than none is built as `SELECT x, AGG(y) as alias FROM dataset [WHERE P]
\* GROUP BY x [ORDER BY sort_by SORT_ORDER] [LIMIT n]`: AGG the upper-cased
\* aggregation when it is sum, avg, count, min or max and COUNT otherwise, alias
\* count for a pie chart and value otherwise, ORDER BY iff sort_by is set and
\* LIMIT iff limit > 0.
C21_AggregatedChartQuery ==
    AggregatedChartIssued =>
        tkCalls[1].query = AggregatedChartText(tkSpec, TaskPredicate)

\* a pie chart with an unknown aggregation, a sort and a limit has been built, with the filter
C21_Witness ==
    /\ AggregatedChartIssued
    /\ tkSpec.type = "pie"
    /\ tkSpec.aggregation = "drop"
    /\ tkCalls[1].query =
         "SELECT month, COUNT(revenue) as count FROM dataset WHERE region = 'EU' GROUP BY month ORDER BY value DESC LIMIT 10"

\* a bar chart with aggregation Avg, no sort and limit 0 has been built
C21_WitnessBar ==
    /\ AggregatedChartIssued
    /\ tkSpec.type = "bar"
    /\ tkCalls[1].query = "SELECT month, AVG(revenue) as value FROM dataset GROUP BY month"
    /\ tkSpec.limit = "0"


-----------------------------------------------------------------------------
(* Claims about the value formatting of the clause builder (checked under SpecWhere) *)

\* the SQL literal of a value: quoted, with every embedded quote doubled
SqlLiteral(sc) == "'" \o escapeQuotes(String(sc)) \o "'"

\* entry i of the Filter State is declared with one of the given filter types
EntryOfType(i, types) ==
    \E f \in 1..Len(FilterCatalog) :
        /\ FilterCatalog[f].id = activeFilters[i].id
        /\ FilterCatalog[f].type \in types

EntryColumn(i) == FilterCatalog[FindFilter(activeFilters[i].id)].column

\* the scalar and array values of categorical and multi_select entries are
\* embedded as escaped literals
ListValuesEscaped ==
    \A i \in 1..Len(activeFilters) :
        LET v == activeFilters[i].value
        IN  EntryOfType(i, {"categorical", "multi_select"}) =>
              /\ (v.t = "string" /\ v.s # "")
                    => includes(predicate, EntryColumn(i) \o " = " \o SqlLiteral(v))
              /\ (v.t = "array" /\ Len(v.a) > 0)
                    => \A k \in 1..Len(v.a) : includes(predicate, SqlLiteral(v.a[k]))

\* start and end of a date_range entry that holds both are embedded as escaped literals
DateValuesEscaped ==
    \A i \in 1..Len(activeFilters) :
        LET v == activeFilters[i].value
        IN  (/\ EntryOfType(i, {"date_range"})
             /\ v.t = "object"
             /\ Truthy(v.o.start) /\ Truthy(v.o.end))
              => includes(predicate, EntryColumn(i) \o " BETWEEN " \o SqlLiteral(v.o.start)
                                       \o " AND " \o SqlLiteral(v.o.end))

\* C22: every filter value that the builder embeds in a quoted literal has its
\* single quotes doubled: the scalar of a categorical or multi_select filter,
\* each member of its array, and the start and end of a date_range; no value
\* ends the literal it is embedded in.
C22_EveryLiteralEscaped ==
    bwDone => ListValuesEscaped /\ DateValuesEscaped

\* the part of C22 that holds: categorical and multi_select values are escaped
C22_ListLiteralsEscaped ==
    bwDone => ListValuesEscaped

\* the end of a date range has closed its literal and added a condition
C22_WitnessDateRange ==
    /\ bwDone
    /\ Len(activeFilters) = 1
    /\ predicate = "order_date BETWEEN '2024-01-01' AND '2024' OR '1'='1'"

\* a categorical value with a quote has been embedded with the quote doubled
C22_WitnessEscaped ==
    /\ bwDone
    /\ Len(activeFilters) = 1
    /\ predicate = "region = 'O''Brien'"


\* a bound of a numeric range is present: not undefined, not null, not ""
BoundPresent(sc) == sc.t \notin {"undefined", "null"} /\ ~(sc.t = "string" /\ sc.s = "")

\* the condition `column op bound` is in the predicate iff the bound is present
\* and its parsed number is none of the excluded ones, and it then holds that number
BoundEmitted(i, op, sc, excluded) ==
    /\ includes(predicate, EntryColumn(i) \o op)
          <=> (BoundPresent(sc) /\ parseFloat(sc) \notin excluded)
    /\ (BoundPresent(sc) /\ parseFloat(sc) \notin excluded)
          => includes(predicate, EntryColumn(i) \o op \o parseFloat(sc))

\* both bounds of every numeric_range entry that holds an object
BoundsEmitted(excluded) ==
    \A i \in 1..Len(activeFilters) :
        (EntryOfType(i, {"numeric_range"}) /\ activeFilters[i].value.t = "object") =>
            /\ BoundEmitted(i, " >= ", activeFilters[i].value.o.min, excluded)
            /\ BoundEmitted(i, " <= ", activeFilters[i].value.o.max, excluded)

\* C23: for a numeric_range filter the builder emits `column >= min` iff min is
\* present and parses as a finite number, and independently `column <= max` iff
\* max is present and parses as a finite number; any other bound is skipped
\* without error and without suppressing the other bound.
C23_FiniteBoundsOnly ==
    bwDone => ~bwThrew /\ BoundsEmitted({"NaN", "Infinity", "-Infinity"})

\* what holds: a bound is emitted iff it is present and does not parse as NaN
C23_NonNaNBounds ==
    bwDone => ~bwThrew /\ BoundsEmitted({"NaN"})

\* a lower bound that parses as Infinity has been emitted, next to a finite upper bound
C23_WitnessInfinity ==
    /\ bwDone
    /\ Len(activeFilters) = 1
    /\ predicate = "price >= Infinity AND price <= 5"

\* a non-numeric upper bound has been skipped and the lower bound kept
C23_WitnessSkipped ==
    /\ bwDone
    /\ Len(activeFilters) = 1
    /\ activeFilters[1].value.t = "object"
    /\ activeFilters[1].value.o.max = JsStr("abc")
    /\ predicate = "price >= 7.5"


-----------------------------------------------------------------------------
(* Claims about overlapping refreshes (checked under SpecDashboard and      *)
(* SpecDashboardLive)                                                       *)

\* loadData is invoked in this step
Starts == Len(ldCalls') > Len(ldCalls)

\* the settled invocation whose barrier completed last
LastSettled(n) ==
    n \in SettledCalls /\ \A m \in SettledCalls : ldCalls[m].rank <= ldCalls[n].rank

\* the visible maps are the result set of the invocation that settled last
LastSettledVisible ==
    \A n \in 1..Len(ldCalls) :
        LastSettled(n) => ResultSetOf(kpiData, n, KpiIds) /\ ResultSetOf(chartData, n, ChartIds)

\* C24: starting a new invocation of loadData (filter change or manual refresh)
\* changes nothing in the invocations in flight; every invocation runs to
\* settlement; and the visible maps are those of the invocation whose barrier
\* completed last, also when that one was started first, with the older filters.
C24_LastToSettleWins ==
    /\ [][Starts => \A n \in 1..Len(ldCalls) : ldCalls'[n] = ldCalls[n]]_vars
    /\ \A n \in 1..MaxCalls :
          (Len(ldCalls) >= n) ~> (Len(ldCalls) >= n /\ ~ldCalls[n].awaiting)
    /\ []LastSettledVisible

\* the invocation started at mount settled after the one a filter change started:
\* its results, for the older filters, are the visible ones
C24_Witness ==
    /\ Len(ldCalls) = 2
    /\ ldCalls[1].filters = 0 /\ ldCalls[2].filters = 1
    /\ ldCalls[1].rank = 2 /\ ldCalls[2].rank = 1
    /\ \A id \in TaskIds : ldCalls[1].tasks[id] = "primaryResult"
    /\ \A id \in TaskIds : ldCalls[2].tasks[id] = "primaryResult"
    /\ StoredIn(kpiData, 1, "kpi_1")
    /\ StoredIn(chartData, 1, "chart_1")


\* the onError calls made in this step
NewErrorCalls == SubSeq(ldErrors', Len(ldErrors) + 1, Len(ldErrors'))

\* the number of calls in a sequence of onError calls that name invocation n and id
TimesReported(calls, n, id) == Cardinality({k \in 1..Len(calls) : calls[k] = <<n, id>>})

\* C28: the step that ends the barrier of an invocation leaves maps that hold
\* exactly the ids whose primary or fallback call succeeded, whatever the maps
\* held before, and calls onError exactly once for each failed id of that
\* invocation and for nothing else.
C28_ExactlySucceededIds ==
    [][\A n \in 1..Len(ldCalls) :
         Settles(n) =>
           /\ DOMAIN kpiData' = {id \in KpiIds : Succeeded(ldCalls[n].tasks[id])}
           /\ DOMAIN chartData' = {id \in ChartIds : Succeeded(ldCalls[n].tasks[id])}
           /\ Len(ldErrors') >= Len(ldErrors)
           /\ SubSeq(ldErrors', 1, Len(ldErrors)) = ldErrors
           /\ \A id \in TaskIds :
                TimesReported(NewErrorCalls, n, id)
                  = IF Failed(ldCalls[n].tasks[id]) THEN 1 ELSE 0
           /\ \A k \in 1..Len(NewErrorCalls) : NewErrorCalls[k][1] = n]_vars

\* an invocation whose tasks both failed settled after one whose tasks both
\* succeeded: the entries of the earlier one are gone and both failures were reported
C28_Witness ==
    /\ Len(ldCalls) = 2
    /\ ldCalls[1].rank = 2 /\ ldCalls[2].rank = 1
    /\ \A id \in TaskIds : Succeeded(ldCalls[2].tasks[id])
    /\ ldCalls[1].tasks["kpi_1"] = "primaryError"
    /\ ldCalls[1].tasks["chart_1"] = "fallbackError"
    /\ kpiData = EmptyMap /\ chartData = EmptyMap
    /\ ldErrors = << <<1, "kpi_1">>, <<1, "chart_1">> >>


\* some invocation is still at its barrier; some invocation started with the loader is
InFlight == \E n \in 1..Len(ldCalls) : ldCalls[n].awaiting
LoaderInFlight == \E n \in 1..Len(ldCalls) : ldCalls[n].awaiting /\ ldCalls[n].showLoader

\* C29: loading is true whenever an invocation started with the loader has not
\* settled; loading and refreshing become false only when no invocation is in
\* flight any more; and every invocation eventually resets both flags.
C29_FlagsFollowInFlight ==
    /\ [](LoaderInFlight => loading)
    /\ [][/\ (loading /\ ~loading') => ~InFlight'
          /\ (refreshing /\ ~refreshing') => ~InFlight']_vars
    /\ \A n \in 1..MaxCalls :
          (Len(ldCalls) >= n) ~> (Len(ldCalls) >= n /\ ~ldCalls[n].awaiting)

\* the part of C29 that holds: the step that ends the barrier of an invocation
\* resets both flags, whether tasks failed or not, and every invocation gets there
C29_FlagsResetAtSettle ==
    /\ [][\A n \in 1..Len(ldCalls) : Settles(n) => (~loading' /\ ~refreshing')]_vars
    /\ \A n \in 1..MaxCalls :
          (Len(ldCalls) >= n) ~> (Len(ldCalls) >= n /\ ~ldCalls[n].awaiting)

\* the invocation of the mount has settled and reset loading while the
\* invocation that a filter change started with the loader is still in flight
C29_WitnessLoaderDropped ==
    /\ Len(ldCalls) = 2
    /\ ~ldCalls[1].awaiting
    /\ ldCalls[2].awaiting /\ ldCalls[2].showLoader
    /\ \E id \in TaskIds : Pending(ldCalls[2].tasks[id])
    /\ ~loading

\* the invocation of the mount has settled and reset refreshing while a manual
\* refresh is in flight
C29_WitnessRefreshingDropped ==
    /\ Len(ldCalls) = 2
    /\ ~ldCalls[1].awaiting
    /\ ldCalls[2].awaiting /\ ~ldCalls[2].showLoader
    /\ ~refreshing


\* ---------------------------------------------------------------------------
\* ProcessingStatus: the status poller (the effect on [datasetId, onComplete,
\* onError, pollInterval]).  One run of the effect is one mount: it owns its
\* intervalId and isMounted; a change of a dependency runs the cleanup and
\* starts another mount with fresh ones.
\* ---------------------------------------------------------------------------

\* the number of getProcessingStatus calls of one mount that are followed
MaxRequests == 3

\* ProcessingStatus.COMPLETED and ProcessingStatus.FAILED
Terminal == {"completed", "failed"}

\* the statuses the backend reports; it never leaves a terminal one
ServerStatuses == {"pending", "processing"} \cup Terminal

\* checkStatus up to `await getProcessingStatus(datasetId)`: one more request
checkStatus ==
    /\ plIssued < MaxRequests
    /\ plIssued' = plIssued + 1
    /\ plPending' = plPending + 1

\* the effect runs: the initial checkStatus() and setInterval
PlMount ==
    /\ plPhase = "new"
    /\ plPhase' = "mounted"
    /\ checkStatus
    /\ plTimer' = TRUE
    /\ UNCHANGED <<plServer, plStatus, plLoading, plError, plCallbacks>>
    /\ UNCHANGED <<rwVars, bwVars, tkVars, vcVars, ldVars>>

\* the interval fires: checkStatus is called again, whatever is still awaited
PlTick ==
    /\ plTimer
    /\ checkStatus
    /\ UNCHANGED <<plPhase, plTimer, plServer, plStatus, plLoading, plError, plCallbacks>>
    /\ UNCHANGED <<rwVars, bwVars, tkVars, vcVars, ldVars>>

\* the backend moves the dataset on
PlServerMoves(st) ==
    /\ plPhase # "new"
    /\ plServer \notin Terminal
    /\ st # plServer
    /\ st # "pending"
    /\ plServer' = st
    /\ UNCHANGED <<plPhase, plTimer, plPending, plIssued, plStatus, plLoading, plError,
                   plCallbacks>>
    /\ UNCHANGED <<rwVars, bwVars, tkVars, vcVars, ldVars>>

\* the callback a settled request invokes: onComplete on COMPLETED, onError
\* on FAILED and in the catch block, none otherwise
CallbackOf(outcome) ==
    IF outcome = "completed" THEN <<"onComplete">>
    ELSE IF outcome \in {"failed", "error"} THEN <<"onError">>
    ELSE <<>>

\* clearInterval(intervalId) in the three finishing branches
ClearsInterval_Never(outcome) == FALSE

ClearsInterval(outcome) == outcome \in Terminal \cup {"error"}

\* the rest of checkStatus, run when an awaited request settles with outcome
\* (a status of the backend, or "error" for a rejected request)
PlSettles(outcome) ==
    /\ plPending > 0
    /\ plPending' = plPending - 1
    /\ IF plPhase = "unmounted"
       THEN UNCHANGED <<plTimer, plStatus, plLoading, plError, plCallbacks>>
       ELSE /\ plStatus' = IF outcome = "error" THEN plStatus ELSE outcome
            /\ plError' = IF outcome = "error" THEN "Failed to get status" ELSE "null"
            /\ plCallbacks' = plCallbacks \o CallbackOf(outcome)
            /\ plTimer' = (plTimer /\ ~ClearsInterval(outcome))
            /\ plLoading' = FALSE
    /\ UNCHANGED <<plPhase, plServer, plIssued>>
    /\ UNCHANGED <<rwVars, bwVars, tkVars, vcVars, ldVars>>

\* the awaited request resolves with the status of the backend
PlResponse == PlSettles(plServer)

\* the awaited request rejects (network error, timeout, error status)
PlRequestError == PlSettles("error")

\* the cleanup of the effect
PlUnmount ==
    /\ plPhase = "mounted"
    /\ plPhase' = "unmounted"
    /\ plTimer' = FALSE
    /\ UNCHANGED <<plServer, plPending, plIssued, plStatus, plLoading, plError, plCallbacks>>
    /\ UNCHANGED <<rwVars, bwVars, tkVars, vcVars, ldVars>>

PlInit ==
    /\ PlIdle
    /\ RwIdle
    /\ BwIdle
    /\ TkIdle
    /\ VcIdle
    /\ LdIdle

PlNext ==
    \/ PlMount
    \/ PlTick
    \/ \E st \in ServerStatuses : PlServerMoves(st)
    \/ PlResponse
    \/ PlRequestError
    \/ PlUnmount

SpecPoller == PlInit /\ [][PlNext]_vars


\* ---------------------------------------------------------------------------
\* Claims about the status poller (checked under SpecPoller)
\* ---------------------------------------------------------------------------

\* a COMPLETED or FAILED response, or a request error, has been processed:
\* each of them, and nothing else, invokes a callback
Finished == plCallbacks # <<>>

\* C30, first part: once a COMPLETED or FAILED response or a request error
\* has been processed, the interval is cleared and no further status request
\* is issued.  Holds.
C30_NoRequestAfterFinish ==
    [][Finished => (~plTimer /\ ~plTimer' /\ plIssued' = plIssued)]_vars

\* C30, second part: the poller invokes onComplete or onError at most once
\* per mount.  Fails: every request awaited when the first one finishes runs
\* the same branch when it settles.
C30_CallbackAtMostOnce == Len(plCallbacks) <= 1

\* C30, third part: after the cleanup of the effect no state is set and no
\* callback is invoked.  Holds.
C30_SilentAfterUnmount ==
    [][plPhase = "unmounted" =>
        UNCHANGED <<plStatus, plLoading, plError, plCallbacks, plIssued>>]_vars

\* C30: under any interleaving of timer ticks and status responses, once a
\* COMPLETED or FAILED response or a request error has been processed the
\* timer is cleared and no further status request is issued, onComplete or
\* onError is invoked at most once per mount, and after unmount no state
\* update and no callback occurs.
C30_PollerFinishesOnce ==
    /\ C30_NoRequestAfterFinish
    /\ [](Len(plCallbacks) <= 1)
    /\ C30_SilentAfterUnmount

\* a tick issued a second request before the first response; both responses
\* said COMPLETED and onComplete ran twice
C30_WitnessTwoCallbacks ==
    /\ plPhase = "mounted"
    /\ plCallbacks = <<"onComplete", "onComplete">>

\* a finished poller with a request still awaited and the interval cleared
C30_WitnessFinishedWhilePending ==
    /\ Finished
    /\ plPending > 0
    /\ ~plTimer
    /\ plPhase = "mounted"

\* a response that settled after the cleanup and changed nothing: the
\* component still shows its initial state
C30_WitnessSettledAfterUnmount ==
    /\ plPhase = "unmounted"
    /\ plIssued > 0
    /\ plPending = 0
    /\ plLoading
    /\ plStatus = "null"
    /\ plCallbacks = <<>>

=============================================================================
